---- MODULE Spec2Model ----
(***************************************************************************)
(* Resilience primitives of code-examples/chapter-02-reliability/complete: *)
(* the in-process CircuitBreaker (circuit_breaker.py) and the TokenBucket  *)
(* rate limiter (rate_limiter.py), each used by concurrent callers.        *)
(*                                                                         *)
(* Time is an integer clock `now` that only moves forward (Tick).  Every   *)
(* `with self._lock:` block is two steps: one that takes the lock and one  *)
(* that runs the block's body and releases it; the wrapped function, and   *)
(* the sleep of a blocking consume, run between the blocks with no lock    *)
(* held.  Variables marked history record what has happened and are read   *)
(* by the properties only.                                                 *)
(***************************************************************************)
EXTENDS Integers, Sequences, FiniteSets, TLC

\* ---------------------------------------------------------------- bounds
MaxFailureThreshold == 3
MaxSuccessThreshold == 2
MaxRecoveryTimeout == 2
MaxTime == 2
NumThreads == 2
MaxRate == 1
MaxCapacity == 1
MaxTimeout == 1
MaxBurst == 3
MaxRetries == 3
MaxInitialDelay == 2
MaxDelay == 4
MaxBase == 3
JitterSteps == 2

Threads == 1..NumThreads
\* The concurrent callers of one TokenBucket.
Consumers == {"c1", "c2"}
\* Python's None; a value v that is present is the one-element sequence <<v>>.
None == <<>>
Some(v) == <<v>>
The(o) == o[1]

\* ------------------------------------------------- CircuitState (enum)
CLOSED == "closed"
OPEN == "open"
HALF_OPEN == "half_open"
CircuitState == {CLOSED, OPEN, HALF_OPEN}

VARIABLES
    now,                \* time.time()
    \* CircuitBreaker configuration (set once by __init__)
    failure_threshold, recovery_timeout, success_threshold,
    \* CircuitBreaker fields
    state, failure_count, success_count, last_failure_time,
    lock,               \* owner of CircuitBreaker._lock, or None
    pc,                 \* where each caller is inside call() / reset()
    outcome,            \* history: how the last decision, call, reset ended
    run,                \* history: the run of consecutive like outcomes
    fail_time,          \* history: clock value of the last recorded failure
    \* TokenBucket fields
    rate, capacity, tokens, last_update,
    bucket_lock,        \* owner of TokenBucket._lock, or None
    cpc,                \* where each caller is inside consume() etc.
    req,                \* each caller's consume() arguments and start_time
    wake,               \* clock value at which a caller's time.sleep() ends
    limiter,            \* the RateLimiter that owns the bucket, or None
    watch,              \* which history is kept: "breaker", "returns",
                        \* "window" or "burst" (any other value: none of
                        \* them)
    returned,           \* history: how the last consume() to end has ended
    window_start,       \* history: clock value the observed interval starts at
    granted,            \* history: tokens granted at or after window_start
    burst,              \* history: the consume(1) calls made since __init__,
                        \* or -1 once anything else has been called
    \* retry_with_backoff arguments (set once by the decorator)
    max_retries, initial_delay, max_delay, exponential_base, jitter,
    retryable_exceptions,
    \* retry_with_backoff.wrapper locals
    attempt, last_exception,
    rpc,                \* where the wrapper is: "idle" or "try" (func is running)
    invocations,        \* history: calls of func made by this wrapper call
    failures,           \* history: those that raised a retryable exception
    sleeps,             \* history: calls of time.sleep made by this wrapper call
    backoff,            \* history: delay before jitter at the last sleep
    slept,              \* history: argument of the last time.sleep
    tried,              \* history: how the last call of func ended
    result,             \* history: how the wrapper call ended
    \* RedisCircuitBreaker
    store,              \* the keys of the breaker's name in Redis
    ppc,                \* where each accessor is inside __init__/call/reset
    frame,              \* each accessor's locals inside call()
    seen,               \* history: who opened the circuit last, and who
                        \* was rejected since
    \* retry_with_backoff around CircuitBreaker.call
    raw_calls,          \* history: calls of the function the breaker guards
    \* the async Agent
    agent               \* where _process_internal is, its iterations, the
                        \* LLM calls made for the current _call_llm(), and
                        \* what it returned

config == <<failure_threshold, recovery_timeout, success_threshold>>
fields == <<state, failure_count, success_count, last_failure_time>>
history == <<outcome, run, fail_time>>
cbvars == <<config, fields, lock, pc, history>>

tbvars == <<rate, capacity, tokens, last_update, bucket_lock, cpc, req, wake,
            limiter, watch, returned, window_start, granted, burst>>

rconfig == <<max_retries, initial_delay, max_delay, exponential_base, jitter,
             retryable_exceptions>>
rtvars == <<rconfig, attempt, last_exception, rpc, invocations, failures,
            sleeps, backoff, slept, tried, result>>

rdvars == <<store, ppc, frame, seen>>

cmvars == <<raw_calls, agent>>

vars == <<now, cbvars, tbvars, rtvars, rdvars, cmvars>>

\* The breaker's mutable fields as one value.
self ==
    [state |-> state, failure_count |-> failure_count,
     success_count |-> success_count, last_failure_time |-> last_failure_time]

Assign(b) ==
    /\ state' = b.state
    /\ failure_count' = b.failure_count
    /\ success_count' = b.success_count
    /\ last_failure_time' = b.last_failure_time

\* ------------------------------------------- CircuitBreaker, pure parts

\* Mutant of Decision: the recovery test uses > instead of >=.
Decision_StrictTimeout(b, t, timeout) ==
    IF b.state = OPEN
    THEN IF t - The(b.last_failure_time) > timeout
         THEN [admit |-> TRUE,
               self |-> [b EXCEPT !.state = HALF_OPEN, !.success_count = 0]]
         ELSE [admit |-> FALSE, self |-> b]
    ELSE [admit |-> TRUE, self |-> b]

\* Mutant of Decision: a rejection restarts the recovery timeout.
Decision_RejectRestarts(b, t, timeout) ==
    IF b.state = OPEN
    THEN IF t - The(b.last_failure_time) >= timeout
         THEN [admit |-> TRUE,
               self |-> [b EXCEPT !.state = HALF_OPEN, !.success_count = 0]]
         ELSE [admit |-> FALSE,
               self |-> [b EXCEPT !.last_failure_time = Some(t)]]
    ELSE [admit |-> TRUE, self |-> b]

\* Mutant of Decision: a rejection is recorded as one more failure.
Decision_RejectCounts(b, t, timeout) ==
    IF b.state = OPEN
    THEN IF t - The(b.last_failure_time) >= timeout
         THEN [admit |-> TRUE,
               self |-> [b EXCEPT !.state = HALF_OPEN, !.success_count = 0]]
         ELSE [admit |-> FALSE,
               self |-> [b EXCEPT !.failure_count = @ + 1,
                                  !.last_failure_time = Some(t)]]
    ELSE [admit |-> TRUE, self |-> b]

\* Mutant of Decision: once a trial has been admitted, callers that find the
\* circuit HALF_OPEN are turned away.
Decision_OneTrial(b, t, timeout) ==
    IF b.state = OPEN
    THEN IF t - The(b.last_failure_time) >= timeout
         THEN [admit |-> TRUE,
               self |-> [b EXCEPT !.state = HALF_OPEN, !.success_count = 0]]
         ELSE [admit |-> FALSE, self |-> b]
    ELSE [admit |-> b.state # HALF_OPEN, self |-> b]

\* Decision phase of call(), lock held, at clock value t: the fields it leaves
\* and whether the call goes on to func (admit) or raises CircuitBreakerError.
Decision(b, t, timeout) ==
    IF b.state = OPEN
    THEN IF t - The(b.last_failure_time) >= timeout
         THEN [admit |-> TRUE,
               self |-> [b EXCEPT !.state = HALF_OPEN, !.success_count = 0]]
         ELSE [admit |-> FALSE, self |-> b]
    ELSE [admit |-> TRUE, self |-> b]

\* Mutant of OnSuccess: closing the circuit forgets to zero failure_count.
OnSuccess_CloseKeepsFailures(b, sthr) ==
    IF b.state = HALF_OPEN
    THEN IF b.success_count + 1 >= sthr
         THEN [b EXCEPT !.success_count = @ + 1, !.state = CLOSED]
         ELSE [b EXCEPT !.success_count = @ + 1]
    ELSE [b EXCEPT !.failure_count = 0]

\* Mutant of OnSuccess: a success while CLOSED does not clear failure_count.
OnSuccess_NoClear(b, sthr) ==
    IF b.state = HALF_OPEN
    THEN IF b.success_count + 1 >= sthr
         THEN [b EXCEPT !.success_count = @ + 1, !.failure_count = 0,
                        !.state = CLOSED]
         ELSE [b EXCEPT !.success_count = @ + 1]
    ELSE b

\* Mutant of OnSuccess: a success closes the circuit whatever its state.
OnSuccess_ClosesFromOpen(b, sthr) ==
    IF b.state = HALF_OPEN
    THEN IF b.success_count + 1 >= sthr
         THEN [b EXCEPT !.success_count = @ + 1, !.failure_count = 0,
                        !.state = CLOSED]
         ELSE [b EXCEPT !.success_count = @ + 1]
    ELSE [b EXCEPT !.failure_count = 0, !.state = CLOSED]

\* Success bookkeeping of call(), lock held.
OnSuccess(b, sthr) ==
    IF b.state = HALF_OPEN
    THEN IF b.success_count + 1 >= sthr
         THEN [b EXCEPT !.success_count = @ + 1, !.failure_count = 0,
                        !.state = CLOSED]
         ELSE [b EXCEPT !.success_count = @ + 1]
    ELSE [b EXCEPT !.failure_count = 0]

\* Mutant of OnFailure: the failure is counted and trips the circuit, but
\* the time of the failure is not kept.
OnFailure_NoTimestamp(b, t, fthr) ==
    [state |-> IF b.failure_count + 1 >= fthr THEN OPEN ELSE b.state,
     failure_count |-> b.failure_count + 1,
     success_count |-> 0,
     last_failure_time |-> b.last_failure_time]

\* Mutant of OnFailure: the threshold test uses > instead of >=.
OnFailure_OffByOne(b, t, fthr) ==
    [state |-> IF b.failure_count + 1 > fthr THEN OPEN ELSE b.state,
     failure_count |-> b.failure_count + 1,
     success_count |-> 0,
     last_failure_time |-> Some(t)]

\* Failure bookkeeping of call() (except expected_exception), lock held, at
\* clock value t.
OnFailure(b, t, fthr) ==
    [state |-> IF b.failure_count + 1 >= fthr THEN OPEN ELSE b.state,
     failure_count |-> b.failure_count + 1,
     success_count |-> 0,
     last_failure_time |-> Some(t)]

\* Mutant of OnReset: the counters are zeroed but the state is left alone.
OnReset_KeepState(b) ==
    [b EXCEPT !.failure_count = 0, !.success_count = 0]

\* reset(), lock held.
OnReset(b) ==
    [b EXCEPT !.state = CLOSED, !.failure_count = 0, !.success_count = 0]

\* ----------------------------------------------------- history variable
\* run describes what has been recorded since the last anchor:
\*   by    the event that set the anchor: "init", "reset", "trial" (a call
\*         admitted from OPEN), "ok" (a success recorded while CLOSED),
\*         "close" (the success that completed a run of trial successes),
\*         "late" (a success recorded while OPEN), "fail", "other";
\*   from  the breaker state when that event began;
\*   at    what the fields were right after it: "closed0" (CLOSED with
\*         failure_count 0), "half0" (HALF_OPEN with success_count 0), "none";
\*   n     the consecutive classified failures recorded since (anchors
\*         closed0, ok, close), or the consecutive successes (anchor half0);
\*   prev  for "ok": the failures that run had counted before the success.
Class(b) ==
    IF b.state = CLOSED /\ b.failure_count = 0 THEN "closed0"
    ELSE IF b.state = HALF_OPEN /\ b.success_count = 0 THEN "half0"
    ELSE "none"

Anchor(event, pre, post) ==
    [by |-> event, from |-> pre.state, at |-> Class(post), n |-> 0, prev |-> 0]

CountsFailures(r) == r.at = "closed0" \/ r.by \in {"ok", "close"}
CountsSuccesses(r) == r.at = "half0" /\ ~CountsFailures(r)

RunAfterSuccess(r, pre, post, sthr) ==
    IF CountsSuccesses(r)
    THEN IF r.n + 1 >= sthr THEN Anchor("close", pre, post)
                            ELSE [r EXCEPT !.n = @ + 1]
    ELSE IF pre.state = CLOSED
    THEN [Anchor("ok", pre, post) EXCEPT
              !.prev = IF CountsFailures(r) THEN r.n ELSE 0]
    ELSE Anchor("late", pre, post)

RunAfterFailure(r, pre, post) ==
    IF CountsFailures(r) THEN [r EXCEPT !.n = @ + 1]
    ELSE Anchor("fail", pre, post)

\* The breaker's history is kept where it is watched: a history variable
\* takes its new value there and keeps its old one elsewhere.
Kept(old, new) == IF watch = "breaker" THEN new ELSE old

\* ------------------------------------------------------------------ Init
\* CircuitBreaker.__init__ with the given arguments.
NewBreaker(fthr, timeout, sthr) ==
    /\ failure_threshold = fthr
    /\ recovery_timeout = timeout
    /\ success_threshold = sthr
    /\ state = CLOSED
    /\ failure_count = 0
    /\ success_count = 0
    /\ last_failure_time = None
    /\ lock = None
    /\ pc = [t \in Threads |-> "idle"]
    /\ outcome = "none"
    /\ run = [by |-> "init", from |-> CLOSED, at |-> "closed0", n |-> 0,
              prev |-> 0]
    /\ fail_time = None

\* ------------------------------------------------------- clock
Tick ==
    /\ now < MaxTime
    /\ now' = now + 1
    /\ UNCHANGED <<cbvars, tbvars, rtvars, rdvars, cmvars>>

\* ------------------------------------------------------- call()
\* `with self._lock:` of the decision phase is entered.
BeginCall(t) ==
    /\ pc[t] = "idle"
    /\ lock = None
    /\ lock' = Some(t)
    /\ pc' = [pc EXCEPT ![t] = "decide"]
    /\ UNCHANGED <<now, cmvars, rdvars, rtvars, tbvars, config, fields, history>>

\* Mutant of Decide: func is called inside the decision phase's `with`
\* block, so an admitted caller keeps the lock.
Decide_KeepsLock(t) ==
    /\ pc[t] = "decide"
    /\ LET d == Decision(self, now, recovery_timeout)
       IN /\ Assign(d.self)
          /\ pc' = [pc EXCEPT ![t] = IF d.admit THEN "call" ELSE "idle"]
          /\ outcome' = Kept(outcome,
                              IF d.admit THEN "admitted" ELSE "rejected")
          /\ run' = IF d.admit /\ state = OPEN
                    THEN Kept(run, Anchor("trial", self, d.self))
                    ELSE run
          /\ lock' = IF d.admit THEN lock ELSE None
    /\ UNCHANGED <<now, cmvars, rdvars, rtvars, tbvars, config, fail_time>>

\* Body of the decision phase: admit the call or raise CircuitBreakerError.
Decide(t) ==
    /\ pc[t] = "decide"
    /\ LET d == Decision(self, now, recovery_timeout)
       IN /\ Assign(d.self)
          /\ pc' = [pc EXCEPT ![t] = IF d.admit THEN "call" ELSE "idle"]
          /\ outcome' = Kept(outcome,
                              IF d.admit THEN "admitted" ELSE "rejected")
          /\ run' = IF d.admit /\ state = OPEN
                    THEN Kept(run, Anchor("trial", self, d.self))
                    ELSE run
    /\ lock' = None
    /\ UNCHANGED <<now, cmvars, rdvars, rtvars, tbvars, config, fail_time>>

\* func returned: the success bookkeeping's `with self._lock:` is entered.
FnReturns(t) ==
    /\ pc[t] = "call"
    /\ lock = None
    /\ lock' = Some(t)
    /\ pc' = [pc EXCEPT ![t] = "on_success"]
    /\ UNCHANGED <<now, cmvars, rdvars, rtvars, tbvars, config, fields, history>>

RecordSuccess(t) ==
    /\ pc[t] = "on_success"
    /\ LET s == OnSuccess(self, success_threshold)
       IN /\ Assign(s)
          /\ run' = Kept(run, RunAfterSuccess(run, self, s, success_threshold))
    /\ lock' = None
    /\ pc' = [pc EXCEPT ![t] = "idle"]
    /\ outcome' = Kept(outcome, "ok")
    /\ UNCHANGED <<now, cmvars, rdvars, rtvars, tbvars, config, fail_time>>

\* func raised expected_exception: the failure bookkeeping's lock is entered.
FnRaises(t) ==
    /\ pc[t] = "call"
    /\ lock = None
    /\ lock' = Some(t)
    /\ pc' = [pc EXCEPT ![t] = "on_failure"]
    /\ UNCHANGED <<now, cmvars, rdvars, rtvars, tbvars, config, fields, history>>

RecordFailure(t) ==
    /\ pc[t] = "on_failure"
    /\ LET f == OnFailure(self, now, failure_threshold)
       IN /\ Assign(f)
          /\ run' = Kept(run, RunAfterFailure(run, self, f))
    /\ fail_time' = Kept(fail_time, Some(now))
    /\ lock' = None
    /\ pc' = [pc EXCEPT ![t] = "idle"]
    /\ outcome' = Kept(outcome, "failure")
    /\ UNCHANGED <<now, cmvars, rdvars, rtvars, tbvars, config>>

\* Mutant of FnRaisesOther: every exception is counted as a failure.
FnRaisesOther_Counted(t) ==
    /\ pc[t] = "call"
    /\ pc' = [pc EXCEPT ![t] = "idle"]
    /\ outcome' = Kept(outcome, "other")
    /\ Assign(OnFailure(self, now, failure_threshold))
    /\ run' = Kept(run, Anchor("other", self,
                                OnFailure(self, now, failure_threshold)))
    /\ UNCHANGED <<now, cmvars, rdvars, rtvars, tbvars, config, lock, fail_time>>

\* func raised an exception that does not match expected_exception: neither
\* the success bookkeeping nor the except clause runs, the lock is not taken.
FnRaisesOther(t) ==
    /\ pc[t] = "call"
    /\ pc' = [pc EXCEPT ![t] = "idle"]
    /\ outcome' = Kept(outcome, "other")
    /\ run' = Kept(run, Anchor("other", self, self))
    /\ UNCHANGED <<now, cmvars, rdvars, rtvars, tbvars, config, fields, lock, fail_time>>

\* ------------------------------------------------------- reset()
BeginReset(t) ==
    /\ pc[t] = "idle"
    /\ lock = None
    /\ lock' = Some(t)
    /\ pc' = [pc EXCEPT ![t] = "reset"]
    /\ UNCHANGED <<now, cmvars, rdvars, rtvars, tbvars, config, fields, history>>

Reset(t) ==
    /\ pc[t] = "reset"
    /\ Assign(OnReset(self))
    /\ run' = Kept(run, Anchor("reset", self, OnReset(self)))
    /\ lock' = None
    /\ pc' = [pc EXCEPT ![t] = "idle"]
    /\ outcome' = Kept(outcome, "reset")
    /\ UNCHANGED <<now, cmvars, rdvars, rtvars, tbvars, config, fail_time>>

\* ======================================================== TokenBucket
Min(a, b) == IF a <= b THEN a ELSE b

\* The clock counts ticks of 0.05 s, so the 0.1 s cap on one sleep is 2 ticks
\* and rate is in tokens per tick.
SleepCap == 2

\* `capacity or rate`: a capacity of None or 0 falls back to rate.
CapacityOr(capacity_arg, r) ==
    IF capacity_arg = None \/ The(capacity_arg) = 0 THEN r
    ELSE The(capacity_arg)

\* Mutant of InitialTokens: a bucket made without initial_tokens starts empty.
InitialTokens_Empty(initial_arg, cap) ==
    IF initial_arg = None THEN 0 ELSE The(initial_arg)

\* `initial_tokens if initial_tokens is not None else self.capacity`
InitialTokens(initial_arg, cap) ==
    IF initial_arg = None THEN cap ELSE The(initial_arg)

NoRequest == [tokens |-> 1, block |-> FALSE, timeout |-> None, start_time |-> 0]

\* How the consume() of caller c ends: value is what it returns ("true",
\* "false"), raised the exception it lets through instead ("none" when it
\* returns), from the place it ends at: "locked" inside the locked block,
\* "unlocked" after it.
Return(c, value) ==
    IF value \in {"true", "false"}
    THEN [value |-> value, raised |-> "none", from |-> cpc[c]]
    ELSE [value |-> "none", raised |-> value, from |-> cpc[c]]

\* TokenBucket.__init__ with the given arguments, at clock value t.
NewBucket(r, capacity_arg, initial_arg, t) ==
    /\ rate = r
    /\ capacity = CapacityOr(capacity_arg, r)
    /\ tokens = InitialTokens(initial_arg, CapacityOr(capacity_arg, r))
    /\ last_update = t
    /\ bucket_lock = None
    /\ cpc = [c \in Consumers |-> "idle"]
    /\ req = [c \in Consumers |-> NoRequest]
    /\ wake = [c \in Consumers |-> 0]
    /\ returned = [value |-> "none", raised |-> "none", from |-> "idle"]
    /\ granted = 0
    /\ burst = 0

\* Mutant of Refill: the sum is not capped at capacity.
Refill_NoCap(b, t) ==
    [tokens |-> b.tokens + (t - b.last_update) * b.rate, last_update |-> t]

\* Mutant of Refill: last_update is not moved, so the same elapsed time is
\* credited again by the next refill.
Refill_KeepsLastUpdate(b, t) ==
    [tokens |-> Min(b.capacity, b.tokens + (t - b.last_update) * b.rate),
     last_update |-> b.last_update]

\* Mutant of Refill: the elapsed time is noted but no token is added.
Refill_AddsNothing(b, t) ==
    [tokens |-> Min(b.capacity, b.tokens), last_update |-> t]

\* _refill() at clock value t (lock held): the new tokens and last_update.
Refill(b, t) ==
    [tokens |-> Min(b.capacity, b.tokens + (t - b.last_update) * b.rate),
     last_update |-> t]

bucket ==
    [rate |-> rate, capacity |-> capacity, tokens |-> tokens,
     last_update |-> last_update]

\* The length of the sleep of a blocking consume, in whole ticks:
\* min((tokens_needed - self.tokens) / self.rate, 0.1), rounded up to the
\* tick at which the sleeper can next look at the clock.  A negative value
\* makes time.sleep() raise ValueError.
WaitTime(n, tok, r) ==
    IF n - tok <= 0 THEN n - tok
    ELSE Min((n - tok + r - 1) \div r, SleepCap)

\* The tokens granted in the observed interval, after n more at clock value t.
Grant(g, t, n) == IF watch = "window" /\ t >= window_start THEN g + n ELSE g

\* The consume(1) calls made since __init__, after one more call of
\* consume(n): counted up to one past capacity, -1 from then on.
Burst(k, n) ==
    IF watch # "burst" THEN k
    ELSE IF k >= 0 /\ k <= capacity /\ n = 1 THEN k + 1
    ELSE -1

\* Mutant of AfterConsume: func is invoked whatever consume() returned.
AfterConsume_AlwaysInvokes(value) == [pc |-> "func", raised |-> "none"]

\* RateLimiter.__call__'s wrapper, once self.bucket.consume() has returned
\* value: func is invoked, or RateLimitExceeded is raised.
AfterConsume(value) ==
    IF value = "true" THEN [pc |-> "func", raised |-> "none"]
    ELSE [pc |-> "idle", raised |-> "RateLimitExceeded"]

\* consume() returns value (or raises it): its frame is gone.  Under a
\* RateLimiter every consume() is the wrapper's, which goes on from the
\* value returned; an exception raised by consume() passes through it.
Finish(c, value) ==
    LET r == Return(c, value)
        wrapped == limiter # None /\ r.raised = "none"
        w == AfterConsume(r.value)
    IN /\ returned' = IF watch \in {"returns", "burst"}
                      THEN IF wrapped THEN [r EXCEPT !.raised = w.raised]
                                      ELSE r
                      ELSE returned
       /\ req' = [req EXCEPT ![c] = NoRequest]
       /\ cpc' = [cpc EXCEPT ![c] = IF wrapped THEN w.pc ELSE "idle"]

\* consume(tokens=n, block=b, timeout=tmo) is called: start_time is read.
\* start_time is only ever used by the timeout test, so it is kept only for
\* a call that has a timeout.
Consume(c, n, b, tmo) ==
    /\ cpc[c] = "idle"
    /\ req' = [req EXCEPT ![c] =
                   [tokens |-> n, block |-> b, timeout |-> tmo,
                    start_time |-> IF tmo = None THEN 0 ELSE now]]
    /\ cpc' = [cpc EXCEPT ![c] = "loop"]
    /\ burst' = Burst(burst, n)
    /\ UNCHANGED <<now, cmvars, rdvars, rtvars, cbvars, rate, capacity, tokens, last_update,
                   bucket_lock, wake, limiter, watch, returned, window_start,
                   granted>>

\* Top of the while loop: `with self._lock:` is entered.
Acquire(c) ==
    /\ cpc[c] = "loop"
    /\ bucket_lock = None
    /\ bucket_lock' = Some(c)
    /\ cpc' = [cpc EXCEPT ![c] = "locked"]
    /\ UNCHANGED <<now, cmvars, rdvars, rtvars, cbvars, rate, capacity, tokens, last_update, req, wake,
                   limiter, watch, returned, window_start, granted, burst>>

\* Mutant of Check: a request that is turned down still takes what is there.
Check_RejectDrains(c) ==
    /\ cpc[c] = "locked"
    /\ LET f == Refill(bucket, now)
           n == req[c].tokens
       IN /\ last_update' = f.last_update
          /\ IF f.tokens >= n
             THEN /\ tokens' = f.tokens - n
                  /\ granted' = Grant(granted, now, n)
                  /\ Finish(c, "true")
             ELSE /\ tokens' = 0
                  /\ granted' = granted
                  /\ IF ~req[c].block
                     THEN Finish(c, "false")
                     ELSE /\ cpc' = [cpc EXCEPT ![c] = "unlocked"]
                          /\ UNCHANGED <<req, returned>>
    /\ bucket_lock' = None
    /\ UNCHANGED <<now, cmvars, rdvars, rtvars, cbvars, rate, capacity, wake, limiter, watch,
                   window_start, burst>>

\* Mutant of Check: the wait is made inside the `with` block, so a caller
\* that goes on to wait keeps the lock.
Check_WaitsInLock(c) ==
    /\ cpc[c] = "locked"
    /\ LET f == Refill(bucket, now)
           n == req[c].tokens
       IN /\ last_update' = f.last_update
          /\ IF f.tokens >= n
             THEN /\ tokens' = f.tokens - n
                  /\ granted' = Grant(granted, now, n)
                  /\ Finish(c, "true")
                  /\ bucket_lock' = None
             ELSE /\ tokens' = f.tokens
                  /\ granted' = granted
                  /\ IF ~req[c].block
                     THEN /\ Finish(c, "false")
                          /\ bucket_lock' = None
                     ELSE /\ cpc' = [cpc EXCEPT ![c] = "unlocked"]
                          /\ bucket_lock' = bucket_lock
                          /\ UNCHANGED <<req, returned>>
    /\ UNCHANGED <<now, cmvars, rdvars, rtvars, cbvars, rate, capacity, wake, limiter, watch,
                   window_start, burst>>

\* Body of the locked block: refill, then deduct and return True, or return
\* False when not blocking, or leave the block to wait. What the bucket
\* and its caller's frame become.
Checking(c) ==
    /\ cpc[c] = "locked"
    /\ LET f == Refill(bucket, now)
           n == req[c].tokens
       IN /\ last_update' = f.last_update
          /\ IF f.tokens >= n
             THEN /\ tokens' = f.tokens - n
                  /\ granted' = Grant(granted, now, n)
                  /\ Finish(c, "true")
             ELSE /\ tokens' = f.tokens
                  /\ granted' = granted
                  /\ IF ~req[c].block
                     THEN Finish(c, "false")
                     ELSE /\ cpc' = [cpc EXCEPT ![c] = "unlocked"]
                          /\ UNCHANGED <<req, returned>>
    /\ bucket_lock' = None
    /\ UNCHANGED <<now, rate, capacity, wake, limiter, watch, window_start,
                   burst>>

\* The locked block of a consume() whose caller is nobody's retry wrapper.
Check(c) ==
    /\ Checking(c)
    /\ UNCHANGED <<cmvars, rdvars, rtvars, cbvars>>

\* After the locked block of a blocking consume: the timeout test, then the
\* wait time from self.tokens (read without the lock) and time.sleep().
Waiting(c) ==
    /\ cpc[c] = "unlocked"
    /\ IF /\ req[c].timeout # None
          /\ now - req[c].start_time >= The(req[c].timeout)
       THEN /\ Finish(c, "false")
            /\ wake' = wake
       ELSE LET w == WaitTime(req[c].tokens, tokens, rate)
            IN IF w < 0
               THEN /\ Finish(c, "ValueError")
                    /\ wake' = wake
               ELSE /\ cpc' = [cpc EXCEPT ![c] = "sleep"]
                    /\ wake' = [wake EXCEPT ![c] = now + w]
                    /\ UNCHANGED <<req, returned>>
    /\ UNCHANGED <<now, rate, capacity, tokens, last_update, bucket_lock,
                   limiter, watch, window_start, granted, burst>>

\* The same for a consume() whose caller is nobody's retry wrapper.
Wait(c) ==
    /\ Waiting(c)
    /\ UNCHANGED <<cmvars, rdvars, rtvars, cbvars>>

\* time.sleep() returns, no earlier than asked: back to the top of the loop.
WakeUp(c) ==
    /\ cpc[c] = "sleep"
    /\ now >= wake[c]
    /\ cpc' = [cpc EXCEPT ![c] = "loop"]
    /\ wake' = [wake EXCEPT ![c] = 0]
    /\ UNCHANGED <<now, cmvars, rdvars, rtvars, cbvars, rate, capacity, tokens, last_update, bucket_lock, req,
                   limiter, watch, returned, window_start, granted, burst>>

\* get_available_tokens(): `with self._lock:` is entered.
BeginGet(c) ==
    /\ cpc[c] = "idle"
    /\ bucket_lock = None
    /\ bucket_lock' = Some(c)
    /\ cpc' = [cpc EXCEPT ![c] = "get"]
    /\ burst' = Burst(burst, 0)
    /\ UNCHANGED <<now, cmvars, rdvars, rtvars, cbvars, rate, capacity, tokens, last_update, req, wake,
                   limiter, watch, returned, window_start, granted>>

\* get_available_tokens(): refill and return self.tokens.
GetAvailableTokens(c) ==
    /\ cpc[c] = "get"
    /\ tokens' = Refill(bucket, now).tokens
    /\ last_update' = Refill(bucket, now).last_update
    /\ bucket_lock' = None
    /\ cpc' = [cpc EXCEPT ![c] = "idle"]
    /\ UNCHANGED <<now, cmvars, rdvars, rtvars, cbvars, rate, capacity, req, wake, limiter, watch,
                   returned, window_start, granted, burst>>

\* ------------------------------------------------------- RateLimiter
\* The wrapper of RateLimiter.__call__ is called: it calls
\* self.bucket.consume(block=self.block, timeout=self.timeout), one token.
Call(c) ==
    /\ limiter # None
    /\ Consume(c, 1, The(limiter).block, The(limiter).timeout)

\* `return func(*args, **kwargs)`: func has run and the wrapper ends with
\* whatever func returned or raised.
WrappedReturns(c) ==
    /\ cpc[c] = "func"
    /\ cpc' = [cpc EXCEPT ![c] = "idle"]
    /\ UNCHANGED <<now, cmvars, rdvars, rtvars, cbvars, rate, capacity, tokens, last_update, bucket_lock,
                   req, wake, limiter, watch, returned, window_start, granted,
                   burst>>

\* RateLimiter.__init__ at clock value t: a bucket made without
\* initial_tokens, and the block and timeout every consume() is called with.
NewLimiter(r, capacity_arg, b, tmo, t) ==
    /\ NewBucket(r, capacity_arg, None, t)
    /\ limiter = Some([block |-> b, timeout |-> tmo])

\* The arguments consume() is called with: a positive amount, up to one more
\* than the bucket holds; a positive timeout, and only together with
\* block=True (the code reads timeout on the blocking path only).
Amounts == 1..(capacity + 1)

TimeoutsTo(k) == {None} \cup {Some(x) : x \in 1..k}

Timeouts == TimeoutsTo(MaxTimeout)

BucketStep(c) ==
    \/ \E n \in Amounts : Consume(c, n, FALSE, None)
    \/ \E n \in Amounts, tmo \in Timeouts : Consume(c, n, TRUE, tmo)
    \/ Acquire(c)
    \/ Check(c)
    \/ Wait(c)
    \/ WakeUp(c)
    \/ BeginGet(c)
    \/ GetAvailableTokens(c)

\* ================================================== retry_with_backoff
\* Delays are whole seconds.  random.random() takes the values k / JitterSteps;
\* the argument of time.sleep is counted in units of 1 / Scale of a second, so
\* that the jittered delay is a whole number.
Scale == 2 * JitterSteps

\* The values of k: random() < 1, and for the random() nearest to 1 the sum
\* 0.5 + random() * 0.5 rounds to 1.0, the factor of k = JitterSteps.
Randoms == 0..JitterSteps

\* The largest finite float, scaled down to the delays of the model.
FloatMax == 8

\* What func returns and raises: two values, two exceptions that match
\* retryable_exceptions and one that does not.
Values == {"v1", "v2"}
RetryableErrors == {"E1", "E2"}
OtherErrors == {"Fatal"}

RECURSIVE Power(_, _)
Power(b, i) == IF i = 0 THEN 1 ELSE b * Power(b, i - 1)

\* `exponential_base ** attempt` raises OverflowError when the power is
\* beyond the largest float.
Overflows(b, i) == Power(b, i) > FloatMax

\* Mutant of Delay: the delay is not capped at max_delay.
Delay_NoCap(initial, b, i, cap) == initial * Power(b, i)

\* min(initial_delay * (exponential_base ** attempt), max_delay)
Delay(initial, b, i, cap) == Min(initial * Power(b, i), cap)

\* delay * (0.5 + random.random() * 0.5) for random() = k / JitterSteps, in
\* units of 1 / Scale.
Jittered(d, k) == d * (JitterSteps + k)

NoResult == [kind |-> "none", what |-> "none"]

\* The decorator's arguments, and a wrapper that has not been called.
\* An Agent that has processed nothing yet.
NoAgent == [at |-> "idle", iterations |-> 0, llm_calls |-> 0, got |-> NoResult]

NewRetryFor(n, initial, cap, b, j, retryable) ==
    /\ max_retries = n
    /\ initial_delay = initial
    /\ max_delay = cap
    /\ exponential_base = b
    /\ jitter = j
    /\ retryable_exceptions = retryable
    /\ raw_calls = 0
    /\ agent = NoAgent
    /\ attempt = 0
    /\ last_exception = None
    /\ rpc = "idle"
    /\ invocations = 0
    /\ failures = 0
    /\ sleeps = 0
    /\ backoff = 0
    /\ slept = 0
    /\ tried = NoResult
    /\ result = NoResult

\* The decorator with retryable_exceptions naming the exceptions func
\* raises on its own.
NewRetry(n, initial, cap, b, j) ==
    NewRetryFor(n, initial, cap, b, j, RetryableErrors)

\* wrapper(*args, **kwargs) is called: last_exception = None and the loop
\* starts at attempt 0 with the first call of func.
Called ==
    /\ rpc = "idle"
    /\ rpc' = "try"
    /\ attempt' = 0
    /\ last_exception' = None
    /\ invocations' = 0
    /\ failures' = 0
    /\ sleeps' = 0
    /\ backoff' = 0
    /\ slept' = 0
    /\ tried' = NoResult
    /\ result' = NoResult
    /\ UNCHANGED rconfig

WrapperCalled ==
    /\ Called
    /\ UNCHANGED <<now, cmvars, rdvars, cbvars, tbvars>>

\* Mutant of TryReturns: the loop goes on after func has returned.
TryReturns_GoesOn(v) ==
    /\ rpc = "try"
    /\ invocations' = invocations + 1
    /\ tried' = [kind |-> "return", what |-> v]
    /\ result' = [kind |-> "return", what |-> v]
    /\ rpc' = IF attempt < max_retries THEN "try" ELSE "idle"
    /\ attempt' = IF attempt < max_retries THEN attempt + 1 ELSE attempt
    /\ UNCHANGED <<now, cmvars, rdvars, cbvars, tbvars, rconfig, last_exception,
                   failures, sleeps, backoff, slept>>

\* `return func(*args, **kwargs)`: func returns v and so does the wrapper.
TryReturns(v) ==
    /\ rpc = "try"
    /\ invocations' = invocations + 1
    /\ tried' = [kind |-> "return", what |-> v]
    /\ result' = [kind |-> "return", what |-> v]
    /\ rpc' = "idle"
    /\ UNCHANGED <<now, cmvars, rdvars, cbvars, tbvars, rconfig, attempt, last_exception,
                   failures, sleeps, backoff, slept>>

\* Mutant of Retry: the delay is computed and slept before the test for the
\* last attempt, so a sleep follows the last attempt too.
Retry_SleepsAfterLast(e, k) ==
    /\ last_exception' = Some(e)
    /\ IF Overflows(exponential_base, attempt)
       THEN /\ result' = [kind |-> "raise", what |-> "OverflowError"]
            /\ rpc' = "idle"
            /\ UNCHANGED <<attempt, sleeps, backoff, slept>>
       ELSE LET d == Delay(initial_delay, exponential_base, attempt, max_delay)
            IN /\ backoff' = d
               /\ slept' = IF jitter THEN Jittered(d, k) ELSE d * Scale
               /\ sleeps' = sleeps + 1
               /\ IF attempt = max_retries
                  THEN /\ result' = [kind |-> "raise", what |-> e]
                       /\ rpc' = "idle"
                       /\ attempt' = attempt
                  ELSE /\ attempt' = attempt + 1
                       /\ rpc' = "try"
                       /\ result' = result

\* What the wrapper does with an exception e it has caught as retryable,
\* with random() = k / JitterSteps: on the last attempt it leaves the loop and
\* raises last_exception; before that it computes the delay, which may raise
\* OverflowError, sleeps and goes to the next attempt.
Retry(e, k) ==
    /\ last_exception' = Some(e)
    /\ IF attempt = max_retries
       THEN /\ result' = [kind |-> "raise", what |-> e]
            /\ rpc' = "idle"
            /\ UNCHANGED <<attempt, sleeps, backoff, slept>>
       ELSE IF Overflows(exponential_base, attempt)
       THEN /\ result' = [kind |-> "raise", what |-> "OverflowError"]
            /\ rpc' = "idle"
            /\ UNCHANGED <<attempt, sleeps, backoff, slept>>
       ELSE LET d == Delay(initial_delay, exponential_base, attempt, max_delay)
            IN /\ backoff' = d
               /\ slept' = IF jitter THEN Jittered(d, k) ELSE d * Scale
               /\ sleeps' = sleeps + 1
               /\ attempt' = attempt + 1
               /\ rpc' = "try"
               /\ result' = result

\* func raises e, which matches retryable_exceptions.
TryRaisesRetryable(e, k) ==
    /\ rpc = "try"
    /\ invocations' = invocations + 1
    /\ failures' = failures + 1
    /\ tried' = [kind |-> "retryable", what |-> e]
    /\ Retry(e, k)
    /\ UNCHANGED <<now, cmvars, rdvars, cbvars, tbvars, rconfig>>

\* Mutant of TryRaisesOther: the exception is handled as a retryable one.
TryRaisesOther_Retried(e) ==
    /\ rpc = "try"
    /\ invocations' = invocations + 1
    /\ tried' = [kind |-> "other", what |-> e]
    /\ Retry(e, 0)
    /\ UNCHANGED <<now, cmvars, rdvars, cbvars, tbvars, rconfig, failures>>

\* func raises e, which does not match retryable_exceptions: `raise`.
TryRaisesOther(e) ==
    /\ rpc = "try"
    /\ invocations' = invocations + 1
    /\ tried' = [kind |-> "other", what |-> e]
    /\ result' = [kind |-> "raise", what |-> e]
    /\ rpc' = "idle"
    /\ UNCHANGED <<now, cmvars, rdvars, cbvars, tbvars, rconfig, attempt, last_exception,
                   failures, sleeps, backoff, slept>>

\* ------------------------------------------------ RedisCircuitBreaker
\* The accessors of one breaker name: one process each.
Procs == {"A", "B"}

\* time.time() is seconds since 1970: the model's clock counts from the
\* moment the first accessor is constructed.
Epoch == 9

Clock == Epoch + now

\* str(n).encode(): redis-py sends a number as its decimal text.
RECURSIVE Digits(_)
Digits(n) == IF n < 10 THEN <<n>> ELSE Append(Digits(n \div 10), n % 10)

\* int(bytes) and float(bytes)
RECURSIVE Number(_)
Number(s) ==
    IF Len(s) = 0 THEN 0
    ELSE 10 * Number(SubSeq(s, 1, Len(s) - 1)) + s[Len(s)]

\* CircuitState.value.encode()
StateBytes(s) == <<"utf-8", s>>

\* CircuitState(bytes.decode())
StateOf(b) == b[2]

\* The three keys of a breaker name that no command has written yet.
EmptyStore ==
    [state |-> None, failures |-> None, successes |-> None,
     last_failure |-> None]

\* redis.set(key, value)
Set(st, key, bytes) == [st EXCEPT ![key] = Some(bytes)]

\* redis.incr(key): the value after the increment; a missing key counts as 0.
Incremented(st, key) ==
    (IF st[key] = None THEN 0 ELSE Number(The(st[key]))) + 1

\* A counter kept by GET and then SET of a value worked out by the client,
\* as seen by a second client that read before the first wrote: the key
\* ends at one more than what was read, here a missing key.
Incr_LosesUpdate(st, key) == Set(st, key, Digits(1))

Incr(st, key) == Set(st, key, Digits(Incremented(st, key)))

\* redis.exists(key)
Exists(st, key) == st[key] # None

\* An accessor that takes a missing or unreadable state for closed: the
\* shared state does not reach it.
get_state_Unshared(st) == CLOSED

get_state(st) ==
    IF st.state = None THEN CLOSED ELSE StateOf(The(st.state))

\* int(count) if count else 0
get_count(st, key) ==
    IF st[key] = None \/ Len(The(st[key])) = 0 THEN 0
    ELSE Number(The(st[key]))

\* float(timestamp) if timestamp else None
get_last_failure_time(st) ==
    IF st.last_failure = None \/ Len(The(st.last_failure)) = 0 THEN None
    ELSE Some(Number(The(st.last_failure)))

\* last_failure and (time.time() - last_failure >= self.recovery_timeout)
TrialDue(st, clock, timeout) ==
    LET last_failure == get_last_failure_time(st)
    IN  /\ last_failure # None
        /\ The(last_failure) # 0
        /\ clock - The(last_failure) >= timeout

NoFrame == [state |-> CLOSED, n |-> 0]

NoAccessors ==
    /\ store = EmptyStore
    /\ ppc = [p \in Procs |-> "new"]
    /\ frame = [p \in Procs |-> NoFrame]
    /\ seen = [opener |-> "none", rejected |-> "none"]

\* One round trip to the store made by accessor p.
Command(p, from, st, to, fr) ==
    /\ ppc[p] = from
    /\ store' = st
    /\ ppc' = [ppc EXCEPT ![p] = to]
    /\ frame' = [frame EXCEPT ![p] = fr]
    /\ UNCHANGED <<now, cbvars, tbvars, rtvars, cmvars>>

\* __init__: if not self.redis.exists(self.state_key)
RedisConstruct(p) ==
    /\ Command(p, "new", store,
               IF Exists(store, "state") THEN "idle" ELSE "init_state",
               frame[p])
    /\ UNCHANGED seen

RedisInitState(p) ==
    /\ Command(p, "init_state", Set(store, "state", StateBytes(CLOSED)),
               "init_failures", frame[p])
    /\ UNCHANGED seen

RedisInitFailures(p) ==
    /\ Command(p, "init_failures", Set(store, "failures", Digits(0)),
               "init_successes", frame[p])
    /\ UNCHANGED seen

RedisInitSuccesses(p) ==
    /\ Command(p, "init_successes", Set(store, "successes", Digits(0)),
               "idle", frame[p])
    /\ UNCHANGED seen

\* call(): state = self._get_state()
RedisGetState(p) ==
    LET s == get_state(store)
    IN  /\ Command(p, "idle", store, IF s = OPEN THEN "check" ELSE "func",
                   [frame[p] EXCEPT !.state = s])
        /\ UNCHANGED seen

\* call(): the state read was OPEN; the last failure time is read and
\* compared, and CircuitBreakerError is raised unless a trial is due.
RedisCheckOpen(p) ==
    LET due == TrialDue(store, Clock, recovery_timeout)
    IN  /\ Command(p, "check", store, IF due THEN "half_open" ELSE "idle",
                   IF due THEN frame[p] ELSE NoFrame)
        /\ seen' = IF due THEN seen ELSE [seen EXCEPT !.rejected = p]

RedisSetHalfOpen(p) ==
    /\ Command(p, "half_open", Set(store, "state", StateBytes(HALF_OPEN)),
               "half_reset", frame[p])
    /\ UNCHANGED seen

RedisTrialResetSuccesses(p) ==
    /\ Command(p, "half_reset", Set(store, "successes", Digits(0)),
               "func", frame[p])
    /\ UNCHANGED seen

\* result = func(*args, **kwargs)
RedisFnReturns(p) ==
    /\ Command(p, "func", store, "ok_read", frame[p])
    /\ UNCHANGED seen

\* except self.expected_exception
RedisFnRaises(p) ==
    /\ Command(p, "func", store, "fail_incr", frame[p])
    /\ UNCHANGED seen

\* any other exception leaves call() at once
RedisFnRaisesOther(p) ==
    /\ Command(p, "func", store, "idle", NoFrame)
    /\ UNCHANGED seen

\* success: state = self._get_state()
RedisReadStateAgain(p) ==
    LET s == get_state(store)
    IN  /\ Command(p, "ok_read", store,
                   IF s = HALF_OPEN THEN "ok_incr" ELSE "ok_reset",
                   [frame[p] EXCEPT !.state = s])
        /\ UNCHANGED seen

\* successes = self._incr_successes()
RedisIncrSuccesses(p) ==
    LET n == Incremented(store, "successes")
    IN  /\ Command(p, "ok_incr", Incr(store, "successes"),
                   IF n >= success_threshold THEN "ok_close" ELSE "idle",
                   IF n >= success_threshold
                       THEN [frame[p] EXCEPT !.n = n] ELSE NoFrame)
        /\ UNCHANGED seen

RedisSetClosed(p) ==
    /\ Command(p, "ok_close", Set(store, "state", StateBytes(CLOSED)),
               "ok_reset", frame[p])
    /\ UNCHANGED seen

\* self._reset_failures(), on either branch of a success
RedisResetFailures(p) ==
    /\ Command(p, "ok_reset", Set(store, "failures", Digits(0)), "idle",
               NoFrame)
    /\ UNCHANGED seen

\* failure: failures = self._incr_failures()
RedisIncrFailures(p) ==
    /\ Command(p, "fail_incr", Incr(store, "failures"), "fail_time",
               [frame[p] EXCEPT !.n = Incremented(store, "failures")])
    /\ UNCHANGED seen

\* self._set_last_failure_time(time.time())
RedisSetLastFailureTime(p) ==
    /\ Command(p, "fail_time", Set(store, "last_failure", Digits(Clock)),
               "fail_reset", frame[p])
    /\ UNCHANGED seen

\* self._reset_successes(); if failures >= self.failure_threshold
RedisResetSuccesses(p) ==
    LET trip == frame[p].n >= failure_threshold
    IN  /\ Command(p, "fail_reset", Set(store, "successes", Digits(0)),
                   IF trip THEN "fail_open" ELSE "idle",
                   IF trip THEN frame[p] ELSE NoFrame)
        /\ UNCHANGED seen

RedisSetOpen(p) ==
    /\ Command(p, "fail_open", Set(store, "state", StateBytes(OPEN)), "idle",
               NoFrame)
    /\ seen' = [opener |-> p, rejected |-> "none"]

\* reset(): three commands
RedisResetState(p) ==
    /\ Command(p, "idle", Set(store, "state", StateBytes(CLOSED)),
               "reset_failures", frame[p])
    /\ UNCHANGED seen

RedisResetFailureCount(p) ==
    /\ Command(p, "reset_failures", Set(store, "failures", Digits(0)),
               "reset_successes", frame[p])
    /\ UNCHANGED seen

RedisResetSuccessCount(p) ==
    /\ Command(p, "reset_successes", Set(store, "successes", Digits(0)),
               "idle", frame[p])
    /\ UNCHANGED seen

RedisStep(p) ==
    \/ RedisConstruct(p)
    \/ RedisInitState(p)
    \/ RedisInitFailures(p)
    \/ RedisInitSuccesses(p)
    \/ RedisGetState(p)
    \/ RedisCheckOpen(p)
    \/ RedisSetHalfOpen(p)
    \/ RedisTrialResetSuccesses(p)
    \/ RedisFnReturns(p)
    \/ RedisFnRaises(p)
    \/ RedisFnRaisesOther(p)
    \/ RedisReadStateAgain(p)
    \/ RedisIncrSuccesses(p)
    \/ RedisSetClosed(p)
    \/ RedisResetFailures(p)
    \/ RedisIncrFailures(p)
    \/ RedisSetLastFailureTime(p)
    \/ RedisResetSuccesses(p)
    \/ RedisSetOpen(p)
    \/ RedisResetState(p)
    \/ RedisResetFailureCount(p)
    \/ RedisResetSuccessCount(p)

\* ------------------------------------------------------- specifications
\* A decorated function nobody calls.
NoRetry == NewRetry(0, 0, 0, 1, FALSE)

Step(t) ==
    \/ BeginCall(t)
    \/ Decide(t)
    \/ FnReturns(t)
    \/ RecordSuccess(t)
    \/ FnRaises(t)
    \/ RecordFailure(t)
    \/ FnRaisesOther(t)
    \/ BeginReset(t)
    \/ Reset(t)

\* One breaker with any thresholds within the bounds; the bucket is not used.
Init ==
    /\ now = 0
    /\ \E fthr \in 1..MaxFailureThreshold, timeout \in 1..MaxRecoveryTimeout,
          sthr \in 1..MaxSuccessThreshold : NewBreaker(fthr, timeout, sthr)
    /\ NewBucket(1, None, None, 0)
    /\ limiter = None
    /\ NoRetry
    /\ NoAccessors
    /\ watch = "breaker"
    /\ window_start = 0

Next ==
    \/ Tick
    \/ \E t \in Threads : Step(t)

\* Any number of concurrent callers of one breaker.
Spec == Init /\ [][Next]_vars

\* One bucket with any rate, capacity and initial tokens within the bounds
\* (0 <= initial_tokens <= capacity); the breaker is not used.
AnyBucket ==
    /\ now = 0
    /\ NewBreaker(1, 1, 1)
    /\ NoRetry
    /\ NoAccessors
    /\ \E r \in 1..MaxRate, cap \in {None} \cup {Some(x) : x \in 0..MaxCapacity} :
          \E ini \in {None} \cup {Some(x) : x \in 0..CapacityOr(cap, r)} :
             NewBucket(r, cap, ini, 0)
    /\ limiter = None

BucketInit ==
    /\ AnyBucket
    /\ watch = "returns"
    /\ window_start = 0

BucketNext ==
    \/ Tick
    \/ \E c \in Consumers : BucketStep(c)

\* Concurrent callers of one bucket; the history records what consume()
\* returns.
BucketSpec == BucketInit /\ [][BucketNext]_vars

\* The same, with the history of the tokens granted from any one clock value
\* on instead.
WindowInit ==
    /\ AnyBucket
    /\ watch = "window"
    /\ window_start \in 0..MaxTime

WindowSpec == WindowInit /\ [][BucketNext]_vars

\* One caller of a bucket made without initial_tokens, with a capacity of up
\* to MaxBurst; the history counts the consume(1) calls made since __init__.
BurstInit ==
    /\ now = 0
    /\ NewBreaker(1, 1, 1)
    /\ NoRetry
    /\ NoAccessors
    /\ \E r \in 1..MaxRate, cap \in {None} \cup {Some(x) : x \in 0..MaxBurst} :
          NewBucket(r, cap, None, 0)
    /\ limiter = None
    /\ watch = "burst"
    /\ window_start = 0

BurstNext ==
    \/ Tick
    \/ BucketStep("c1")

BurstSpec == BurstInit /\ [][BurstNext]_vars

\* Concurrent callers that wait: every consume() is blocking and has a
\* timeout, of up to LongTimeout ticks, on a bucket whose rate and capacity go
\* one past MaxRate and MaxCapacity; get_available_tokens() is called too.
LongTimeout == MaxTimeout + 1

TimeoutInit ==
    /\ now = 0
    /\ NewBreaker(1, 1, 1)
    /\ NoRetry
    /\ NoAccessors
    /\ \E r \in 1..(MaxRate + 1), cap \in 1..(MaxCapacity + 1) :
          \E ini \in 0..cap : NewBucket(r, Some(cap), Some(ini), 0)
    /\ limiter = None
    /\ watch = "returns"
    /\ window_start = 0

TimeoutStep(c) ==
    \/ \E n \in Amounts, tmo \in TimeoutsTo(LongTimeout) \ {None} :
          Consume(c, n, TRUE, tmo)
    \/ Acquire(c)
    \/ Check(c)
    \/ Wait(c)
    \/ WakeUp(c)
    \/ BeginGet(c)
    \/ GetAvailableTokens(c)

TimeoutNext ==
    \/ Tick
    \/ \E c \in Consumers : TimeoutStep(c)

TimeoutSpec == TimeoutInit /\ [][TimeoutNext]_vars

\* The only caller of one bucket, which makes blocking consume() calls
\* without a timeout for no more than capacity, and get_available_tokens()
\* calls. Both the clock and the caller's thread keep running. The calls
\* begin while the clock is within MaxTime; past MaxTime the clock is
\* followed only while the caller sleeps, up to Horizon, which is as long as
\* the emptiest bucket needs to fill.
Horizon == MaxTime + MaxBurst

SoloInit ==
    /\ now = 0
    /\ NewBreaker(1, 1, 1)
    /\ NoRetry
    /\ NoAccessors
    /\ \E r \in 1..MaxRate, cap \in 1..MaxBurst :
          \E ini \in 0..cap : NewBucket(r, Some(cap), Some(ini), 0)
    /\ limiter = None
    /\ watch = "returns"
    /\ window_start = 0

SoloTick ==
    /\ now < Horizon
    /\ now < MaxTime \/ (cpc["c1"] = "sleep" /\ now < wake["c1"])
    /\ now' = now + 1
    /\ UNCHANGED <<cbvars, tbvars, rtvars, rdvars, cmvars>>

SoloCall ==
    /\ now <= MaxTime
    /\ \E n \in 1..capacity : Consume("c1", n, TRUE, None)

SoloRuns ==
    \/ Acquire("c1")
    \/ Check("c1")
    \/ Wait("c1")
    \/ WakeUp("c1")
    \/ GetAvailableTokens("c1")

SoloNext ==
    \/ SoloTick
    \/ SoloCall
    \/ BeginGet("c1")
    \/ SoloRuns

SoloSpec ==
    SoloInit /\ [][SoloNext]_vars /\ WF_vars(SoloTick) /\ WF_vars(SoloRuns)

\* Concurrent callers of one function wrapped by a RateLimiter, with any
\* block and timeout (a timeout only with block=True, where it is read),
\* while a caller of a circuit breaker takes the breaker through its states.
LimiterInit ==
    /\ now = 0
    /\ NewBreaker(1, 1, 1)
    /\ NoRetry
    /\ NoAccessors
    /\ \E r \in 1..MaxRate, cap \in {None} \cup {Some(x) : x \in 0..MaxCapacity},
          b \in BOOLEAN :
          \E tmo \in IF b THEN Timeouts ELSE {None} : NewLimiter(r, cap, b, tmo, 0)
    /\ watch = "returns"
    /\ window_start = 0

LimiterStep(c) ==
    \/ Call(c)
    \/ Acquire(c)
    \/ Check(c)
    \/ Wait(c)
    \/ WakeUp(c)
    \/ WrappedReturns(c)

LimiterNext ==
    \/ Tick
    \/ \E c \in Consumers : LimiterStep(c)
    \/ Step(1)

LimiterSpec == LimiterInit /\ [][LimiterNext]_vars

\* One function decorated by retry_with_backoff with any arguments within
\* the bounds, called again and again by one caller; the breaker and the
\* bucket are not used.
RetryInit ==
    /\ now = 0
    /\ NewBreaker(1, 1, 1)
    /\ NewBucket(1, None, None, 0)
    /\ limiter = None
    /\ watch = "retry"
    /\ window_start = 0
    /\ NoAccessors
    /\ \E n \in 0..MaxRetries, initial \in 0..MaxInitialDelay, cap \in 0..MaxDelay,
          b \in 1..MaxBase, j \in BOOLEAN : NewRetry(n, initial, cap, b, j)

RetryNext ==
    \/ WrapperCalled
    \/ \E v \in Values : TryReturns(v)
    \/ \E e \in RetryableErrors, k \in Randoms : TryRaisesRetryable(e, k)
    \/ \E e \in OtherErrors : TryRaisesOther(e)

RetrySpec == RetryInit /\ [][RetryNext]_vars

\* ------------------------------------- one caller, one operation at a time
\* What a RedisCircuitBreaker method does to the store when no other
\* command comes between its own: its commands, composed in program order.
\* __init__
RedisNew(st) ==
    IF Exists(st, "state") THEN st
    ELSE Set(Set(Set(st, "state", StateBytes(CLOSED)),
                 "failures", Digits(0)), "successes", Digits(0))

\* Mutant of RedisDecision: the recovery test uses > instead of >=.
RedisDecision_StrictTimeout(st, clock, timeout) ==
    IF get_state(st) = OPEN
    THEN IF TrialDue(st, clock, timeout + 1)
         THEN [admit |-> TRUE,
               store |-> Set(Set(st, "state", StateBytes(HALF_OPEN)),
                             "successes", Digits(0))]
         ELSE [admit |-> FALSE, store |-> st]
    ELSE [admit |-> TRUE, store |-> st]

\* call() up to func, at time.time() = clock
RedisDecision(st, clock, timeout) ==
    IF get_state(st) = OPEN
    THEN IF TrialDue(st, clock, timeout)
         THEN [admit |-> TRUE,
               store |-> Set(Set(st, "state", StateBytes(HALF_OPEN)),
                             "successes", Digits(0))]
         ELSE [admit |-> FALSE, store |-> st]
    ELSE [admit |-> TRUE, store |-> st]

\* call() after func has returned
RedisOnSuccess(st, sthr) ==
    IF get_state(st) = HALF_OPEN
    THEN IF Incremented(st, "successes") >= sthr
         THEN Set(Set(Incr(st, "successes"), "state", StateBytes(CLOSED)),
                  "failures", Digits(0))
         ELSE Incr(st, "successes")
    ELSE Set(st, "failures", Digits(0))

\* call() after func has raised expected_exception, at time.time() = clock
RedisOnFailure(st, clock, fthr) ==
    LET counted == Set(Set(Incr(st, "failures"),
                           "last_failure", Digits(clock)),
                       "successes", Digits(0))
    IN  IF Incremented(st, "failures") >= fthr
        THEN Set(counted, "state", StateBytes(OPEN))
        ELSE counted

\* reset()
RedisOnReset(st) ==
    Set(Set(Set(st, "state", StateBytes(CLOSED)), "failures", Digits(0)),
        "successes", Digits(0))

\* The fields of the circuit as the store holds them; the time of the last
\* failure on the model's clock.
View(st) ==
    [state |-> get_state(st),
     failure_count |-> get_count(st, "failures"),
     success_count |-> get_count(st, "successes"),
     last_failure_time |->
        IF get_last_failure_time(st) = None THEN None
        ELSE Some(The(get_last_failure_time(st)) - Epoch)]

\* One caller drives a CircuitBreaker (as thread 1) and a RedisCircuitBreaker
\* (as accessor A) side by side: every operation is made on both, and func
\* ends the same way for both. The clock may advance while func runs.
PairMoves(at, to, accessor_at, accessor_to, st) ==
    /\ pc[1] = at
    /\ ppc["A"] = accessor_at
    /\ pc' = [pc EXCEPT ![1] = to]
    /\ ppc' = [ppc EXCEPT !["A"] = accessor_to]
    /\ store' = st
    /\ UNCHANGED <<now, config, lock, history, frame, seen, tbvars, rtvars,
                   cmvars>>

PairCall ==
    LET d == Decision(self, now, recovery_timeout)
        rd == RedisDecision(store, Clock, recovery_timeout)
    IN  /\ PairMoves("idle", IF d.admit THEN "call" ELSE "idle",
                      "idle", IF rd.admit THEN "func" ELSE "idle", rd.store)
        /\ Assign(d.self)

PairReturns ==
    /\ PairMoves("call", "idle", "func", "idle",
                 RedisOnSuccess(store, success_threshold))
    /\ Assign(OnSuccess(self, success_threshold))

PairRaises ==
    /\ PairMoves("call", "idle", "func", "idle",
                 RedisOnFailure(store, Clock, failure_threshold))
    /\ Assign(OnFailure(self, now, failure_threshold))

PairRaisesOther ==
    /\ PairMoves("call", "idle", "func", "idle", store)
    /\ UNCHANGED fields

PairReset ==
    /\ PairMoves("idle", "idle", "idle", "idle", RedisOnReset(store))
    /\ Assign(OnReset(self))

PairInit ==
    /\ now = 0
    /\ \E fthr \in 1..MaxFailureThreshold, timeout \in 1..MaxRecoveryTimeout,
          sthr \in 1..MaxSuccessThreshold : NewBreaker(fthr, timeout, sthr)
    /\ NewBucket(1, None, None, 0)
    /\ limiter = None
    /\ NoRetry
    /\ watch = "pair"
    /\ window_start = 0
    /\ store = RedisNew(EmptyStore)
    /\ ppc = [p \in Procs |-> IF p = "A" THEN "idle" ELSE "new"]
    /\ frame = [p \in Procs |-> NoFrame]
    /\ seen = [opener |-> "none", rejected |-> "none"]

PairNext ==
    \/ Tick
    \/ PairCall
    \/ PairReturns
    \/ PairRaises
    \/ PairRaisesOther
    \/ PairReset

PairSpec == PairInit /\ [][PairNext]_vars

\* ------------------------------- retry_with_backoff around breaker.call
\* One request: the wrapper of retry_with_backoff is called once, and its
\* func is `breaker.call(raw)` with a raw that always raises RawError, an
\* exception the breaker expects and the decorator retries. There is one
\* thread, so each locked block of call() runs as a whole; time passes
\* while raw runs and while the wrapper sleeps.
RawError == "E1"

\* What the decorator may be told to retry: any Exception (the default),
\* which covers CircuitBreakerError, or RawError alone.
RetryableChoices == {{RawError, "CircuitBreakerError"}, {RawError}}

\* breaker.call(raw) has raised e into the wrapper, with random() = k /
\* JitterSteps: the except clause that matches e.
Caught(e, k) ==
    /\ invocations' = invocations + 1
    /\ IF e \in retryable_exceptions
       THEN /\ tried' = [kind |-> "retryable", what |-> e]
            /\ failures' = failures + 1
            /\ Retry(e, k)
       ELSE /\ tried' = [kind |-> "other", what |-> e]
            /\ result' = [kind |-> "raise", what |-> e]
            /\ rpc' = "idle"
            /\ UNCHANGED <<attempt, last_exception, failures, sleeps, backoff,
                           slept>>

\* The request begins.
RequestMade ==
    /\ result = NoResult
    /\ WrapperCalled

\* func is called: the decision phase of breaker.call(raw). An admitted call
\* goes on to raw; a rejected one raises CircuitBreakerError into the
\* wrapper.
AttemptDecides(k) ==
    /\ rpc = "try"
    /\ pc[1] = "idle"
    /\ LET d == Decision(self, now, recovery_timeout)
       IN /\ Assign(d.self)
          /\ IF d.admit
             THEN /\ pc' = [pc EXCEPT ![1] = "call"]
                  /\ raw_calls' = raw_calls + 1
                  /\ UNCHANGED rtvars
             ELSE /\ Caught("CircuitBreakerError", k)
                  /\ UNCHANGED <<pc, raw_calls, rconfig>>
    /\ UNCHANGED <<now, config, lock, history, tbvars, rdvars, agent>>

\* raw raises: the failure bookkeeping of breaker.call, which raises the
\* exception on into the wrapper.
RawRaises(k) ==
    /\ rpc = "try"
    /\ pc[1] = "call"
    /\ Assign(OnFailure(self, now, failure_threshold))
    /\ pc' = [pc EXCEPT ![1] = "idle"]
    /\ Caught(RawError, k)
    /\ UNCHANGED <<now, config, lock, history, tbvars, rdvars, rconfig,
                   raw_calls, agent>>

ComposedInit ==
    /\ now = 0
    /\ \E fthr \in 1..MaxFailureThreshold, timeout \in 1..MaxRecoveryTimeout,
          sthr \in 1..MaxSuccessThreshold : NewBreaker(fthr, timeout, sthr)
    /\ NewBucket(1, None, None, 0)
    /\ limiter = None
    /\ watch = "composed"
    /\ window_start = 0
    /\ NoAccessors
    /\ \E n \in 0..MaxRetries, b \in 1..MaxBase, j \in BOOLEAN,
          retryable \in RetryableChoices :
          NewRetryFor(n, 1, MaxDelay, b, j, retryable)

ComposedNext ==
    \/ Tick
    \/ RequestMade
    \/ \E k \in Randoms : AttemptDecides(k)
    \/ \E k \in Randoms : RawRaises(k)

ComposedSpec == ComposedInit /\ [][ComposedNext]_vars

\* --------------------------------- retry_with_backoff around rate_limit
\* The stacking of the rate_limit docstring: caller c1 calls a function
\* decorated by retry_with_backoff over rate_limit, so the func of the retry
\* wrapper is the RateLimiter wrapper; caller c2 calls the rate-limited
\* function again and again, as the retry wrapper of any other caller does.
\* Time passes at will, so a backoff sleep may be cut as short as can be.
Stacked == "c1"

\* What the decorator may be told to retry: any Exception (the default),
\* which covers what the RateLimiter wrapper raises, or f's own exceptions.
StackedChoices ==
    {RetryableErrors \cup {"RateLimitExceeded", "ValueError"}, RetryableErrors}

\* `return func(*args, **kwargs)`: func has returned v.
Returned(v) ==
    /\ invocations' = invocations + 1
    /\ tried' = [kind |-> "return", what |-> v]
    /\ result' = [kind |-> "return", what |-> v]
    /\ rpc' = "idle"
    /\ UNCHANGED <<attempt, last_exception, failures, sleeps, backoff, slept>>

\* An attempt begins: the retry wrapper calls the RateLimiter wrapper.
StackedCall ==
    /\ rpc = "try"
    /\ Call(Stacked)

\* The locked block of the attempt's consume(): when consume() returns
\* False the RateLimiter wrapper raises RateLimitExceeded into the retry
\* wrapper.
StackedCheck(k) ==
    /\ Checking(Stacked)
    /\ IF cpc'[Stacked] = "idle"
       THEN Caught("RateLimitExceeded", k)
       ELSE UNCHANGED <<attempt, last_exception, rpc, invocations, failures,
                        sleeps, backoff, slept, tried, result>>
    /\ UNCHANGED <<cmvars, rdvars, cbvars, rconfig>>

\* After the locked block: consume() may return False at the timeout test, or
\* time.sleep may raise ValueError, into the retry wrapper.
StackedWait(k) ==
    /\ LET timed_out == /\ req[Stacked].timeout # None
                        /\ now - req[Stacked].start_time
                              >= The(req[Stacked].timeout)
       IN /\ Waiting(Stacked)
          /\ IF cpc'[Stacked] = "idle"
             THEN Caught(IF timed_out THEN "RateLimitExceeded"
                                      ELSE "ValueError", k)
             ELSE UNCHANGED <<attempt, last_exception, rpc, invocations,
                              failures, sleeps, backoff, slept, tried, result>>
    /\ UNCHANGED <<cmvars, rdvars, cbvars, rconfig>>

\* f, entered after a consume() that returned True, returns v.
StackedReturns(v) ==
    /\ cpc[Stacked] = "func"
    /\ cpc' = [cpc EXCEPT ![Stacked] = "idle"]
    /\ Returned(v)
    /\ UNCHANGED <<now, cmvars, rdvars, cbvars, rconfig, rate, capacity, tokens,
                   last_update, bucket_lock, req, wake, limiter, watch,
                   returned, window_start, granted, burst>>

\* f raises e.
StackedRaises(e, k) ==
    /\ cpc[Stacked] = "func"
    /\ cpc' = [cpc EXCEPT ![Stacked] = "idle"]
    /\ Caught(e, k)
    /\ UNCHANGED <<now, cmvars, rdvars, cbvars, rconfig, rate, capacity, tokens,
                   last_update, bucket_lock, req, wake, limiter, watch,
                   returned, window_start, granted, burst>>

StackedInit ==
    /\ now = 0
    /\ NewBreaker(1, 1, 1)
    /\ NoAccessors
    /\ \E r \in 1..MaxRate, cap \in {None} \cup {Some(x) : x \in 0..MaxCapacity},
          b \in BOOLEAN :
          \E tmo \in IF b THEN Timeouts ELSE {None} : NewLimiter(r, cap, b, tmo, 0)
    /\ watch = "window"
    /\ window_start \in 0..MaxTime
    /\ \E n \in 0..MaxRetries, retryable \in StackedChoices :
          NewRetryFor(n, 0, 0, 1, FALSE, retryable)

StackedNext ==
    \/ Tick
    \/ WrapperCalled
    \/ StackedCall
    \/ Acquire(Stacked)
    \/ \E k \in Randoms : StackedCheck(k)
    \/ \E k \in Randoms : StackedWait(k)
    \/ WakeUp(Stacked)
    \/ \E v \in Values : StackedReturns(v)
    \/ \E e \in {RawError} \cup OtherErrors, k \in Randoms : StackedRaises(e, k)
    \/ LimiterStep("c2")

StackedSpec == StackedInit /\ [][StackedNext]_vars

\* ------------------------------------------------- the async Agent
\* config.max_iterations
MaxIterations == 2

\* response.stop_reason
StopReasons == {"end_turn", "tool_use"}

\* What calling an `async def` function returns: a coroutine object, whose
\* body has not begun to run.
Coroutine == "coroutine"

\* process(): a request begins.
AgentProcess ==
    /\ agent.at = "returned"
    /\ agent' = NoAgent
    /\ UNCHANGED <<now, raw_calls, rdvars, cbvars, tbvars, rtvars>>

\* _process_internal: `while iterations < max_iterations`, `iterations += 1`
\* and the call self._call_llm(), which is a call of the wrapper; after the
\* loop, "Maximum iterations reached".
AgentCalls ==
    /\ agent.at = "idle"
    /\ IF agent.iterations < MaxIterations
       THEN /\ Called
            /\ agent' = [agent EXCEPT !.at = "calling",
                                      !.iterations = @ + 1,
                                      !.llm_calls = 0]
       ELSE /\ agent' = [agent EXCEPT !.at = "returned",
                                      !.got = [kind |-> "return",
                                               what |-> "max_iterations"]]
            /\ UNCHANGED rtvars
    /\ UNCHANGED <<now, raw_calls, rdvars, cbvars, tbvars>>

\* wrapper, attempt 0: func(*args, **kwargs) is the call of the async def
\* _call_llm, which returns a coroutine and raises nothing; the wrapper
\* returns the coroutine, and _process_internal begins to await it.
CoroutineMade ==
    /\ agent.at = "calling"
    /\ rpc = "try"
    /\ Returned(Coroutine)
    /\ agent' = [agent EXCEPT !.at = "awaiting"]
    /\ UNCHANGED <<now, raw_calls, rdvars, cbvars, tbvars, rconfig>>

\* The awaited body of _call_llm: client.messages.create returns a message.
AwaitReturns(stop) ==
    /\ agent.at = "awaiting"
    /\ agent' = IF stop = "end_turn"
                THEN [agent EXCEPT !.at = "returned",
                                   !.llm_calls = @ + 1,
                                   !.got = [kind |-> "return", what |-> stop]]
                ELSE [agent EXCEPT !.at = "idle", !.llm_calls = @ + 1]
    /\ UNCHANGED <<now, raw_calls, rdvars, cbvars, tbvars, rtvars>>

\* client.messages.create raises e: it comes out of the `await` inside
\* _process_internal's try, whose `except Exception` returns the error text.
AwaitRaises(e) ==
    /\ agent.at = "awaiting"
    /\ agent' = [agent EXCEPT !.at = "returned",
                              !.llm_calls = @ + 1,
                              !.got = [kind |-> "error", what |-> e]]
    /\ UNCHANGED <<now, raw_calls, rdvars, cbvars, tbvars, rtvars>>

AsyncInit ==
    /\ now = 0
    /\ NewBreaker(1, 1, 1)
    /\ NewBucket(1, None, None, 0)
    /\ limiter = None
    /\ watch = "agent"
    /\ window_start = 0
    /\ NoAccessors
    /\ \E n \in 0..MaxRetries, initial \in 0..MaxInitialDelay, cap \in 0..MaxDelay,
          b \in 1..MaxBase, j \in BOOLEAN : NewRetry(n, initial, cap, b, j)

AsyncNext ==
    \/ AgentProcess
    \/ AgentCalls
    \/ CoroutineMade
    \/ \E stop \in StopReasons : AwaitReturns(stop)
    \/ \E e \in RetryableErrors \cup OtherErrors : AwaitRaises(e)

AsyncSpec == AsyncInit /\ [][AsyncNext]_vars

\* Two accessors of one breaker name over one store, each constructed and
\* then calling and resetting at will; every command is a round trip of
\* its own, and nothing orders the commands of different accessors.
RedisInit ==
    /\ now = 0
    /\ \E fthr \in 1..MaxFailureThreshold, timeout \in 1..MaxRecoveryTimeout,
          sthr \in 1..MaxSuccessThreshold : NewBreaker(fthr, timeout, sthr)
    /\ NewBucket(1, None, None, 0)
    /\ limiter = None
    /\ NoRetry
    /\ watch = "redis"
    /\ window_start = 0
    /\ NoAccessors

RedisNext ==
    \/ Tick
    \/ \E p \in Procs : RedisStep(p)

RedisSpec == RedisInit /\ [][RedisNext]_vars

\* The in-process breaker over a clock that keeps advancing, with calls
\* that keep arriving. The calls in flight end, if ever, by MaxTime: past
\* it the clock advances only while the breaker is OPEN and its recovery
\* timeout has not passed, which it does within LiveHorizon.
LiveHorizon == MaxTime + 2 * MaxRecoveryTimeout

LiveInit ==
    /\ now = 0
    /\ \E fthr \in 1..MaxFailureThreshold, timeout \in 1..MaxRecoveryTimeout,
          sthr \in 1..MaxSuccessThreshold : NewBreaker(fthr, timeout, sthr)
    /\ NewBucket(1, None, None, 0)
    /\ limiter = None
    /\ NoRetry
    /\ NoAccessors
    /\ watch = "live"
    /\ window_start = 0

LiveTick ==
    /\ now < LiveHorizon
    /\ \/ now < MaxTime
       \/ /\ state = OPEN
          /\ now - The(last_failure_time) < recovery_timeout
    /\ now' = now + 1
    /\ UNCHANGED <<cbvars, tbvars, rtvars, rdvars, cmvars>>

LiveReturns(t) == now <= MaxTime /\ FnReturns(t)

LiveRaises(t) == now <= MaxTime /\ FnRaises(t)

LiveRaisesOther(t) == now <= MaxTime /\ FnRaisesOther(t)

\* A call arrives: the lock of the decision phase is free and is taken.
LiveArrives == \E t \in Threads : BeginCall(t)

\* A `with self._lock:` block runs to its end.
LiveLocked ==
    \E t \in Threads :
        Decide(t) \/ RecordSuccess(t) \/ RecordFailure(t) \/ Reset(t)

LiveStep(t) ==
    \/ BeginCall(t)
    \/ Decide(t)
    \/ LiveReturns(t)
    \/ RecordSuccess(t)
    \/ LiveRaises(t)
    \/ RecordFailure(t)
    \/ LiveRaisesOther(t)
    \/ BeginReset(t)
    \/ Reset(t)

LiveNext ==
    \/ LiveTick
    \/ \E t \in Threads : LiveStep(t)

LiveSpec ==
    /\ LiveInit
    /\ [][LiveNext]_vars
    /\ WF_vars(LiveTick)
    /\ WF_vars(LiveArrives)
    /\ WF_vars(LiveLocked)

\* A breaker of either kind under concurrent use: an in-process
\* CircuitBreaker called by the threads, or a Redis breaker name used by the
\* two accessors.
EitherInit == Init \/ RedisInit

\* The callers there are of the breaker in use.
Callers == IF watch = "breaker" THEN Threads ELSE {}

Accessors == IF watch = "redis" THEN Procs ELSE {}

EitherNext ==
    \/ Tick
    \/ \E t \in Callers : Step(t)
    \/ \E p \in Accessors : RedisStep(p)

EitherSpec == EitherInit /\ [][EitherNext]_vars

TypeOK ==
    /\ now \in 0..Horizon
    /\ state \in CircuitState
    /\ failure_count \in Nat
    /\ success_count \in Nat
    /\ last_failure_time \in {None} \cup {Some(v) : v \in 0..MaxTime}
    /\ lock \in {None} \cup {Some(t) : t \in Threads}
    /\ pc \in [Threads -> {"idle", "decide", "call", "on_success",
                           "on_failure", "reset"}]
    /\ bucket_lock \in {None} \cup {Some(c) : c \in Consumers}
    /\ cpc \in [Consumers -> {"idle", "loop", "locked", "unlocked", "sleep",
                            "get", "func"}]

\* ------------------------------------------------------------ properties
\* Steps of caller t, told apart by where t was and where it is afterwards.
Decided(t) == pc[t] = "decide" /\ pc'[t] # "decide"
Rejected(t) == Decided(t) /\ outcome' = "rejected"
FailureRecorded(t) == pc[t] = "on_failure" /\ pc'[t] # "on_failure"
ResetDone(t) == pc[t] = "reset" /\ pc'[t] # "reset"
OtherRaised(t) == pc[t] = "call" /\ pc'[t] = "idle"
TooEarly == now - The(fail_time) < recovery_timeout

\* C1: from CLOSED with failure_count = 0, fewer than failure_threshold
\* consecutive classified failures leave the breaker CLOSED, exactly
\* failure_threshold of them leave it OPEN, and a call decided next, before
\* recovery_timeout has passed since the last failure, raises
\* CircuitBreakerError and does not reach func.
C1_ThresholdTrip ==
    /\ [](run.at = "closed0" =>
            /\ run.n < failure_threshold => state = CLOSED
            /\ run.n = failure_threshold => state = OPEN)
    /\ [][\A t \in Threads :
            (run.at = "closed0" /\ run.n = failure_threshold
                /\ Decided(t) /\ TooEarly)
            => (outcome' = "rejected" /\ pc'[t] = "idle")]_vars

C1_Witness ==
    /\ run.at = "closed0"
    /\ run.n = failure_threshold
    /\ failure_threshold >= 2
    /\ state = OPEN
    /\ outcome = "rejected"

\* C2: a classified failure recorded while the state is HALF_OPEN leaves the
\* state OPEN with success_count = 0 and last_failure_time set to the time of
\* the failure.
C2_HalfOpenFailureReopens ==
    [][\A t \in Threads :
        (FailureRecorded(t) /\ state = HALF_OPEN)
        => (state' = OPEN /\ success_count' = 0
            /\ last_failure_time' = Some(now))]_vars

\* C3: a call decided while OPEN is rejected without reaching func when
\* now - last_failure_time < recovery_timeout, and otherwise is admitted as a
\* trial: state becomes HALF_OPEN, success_count 0, and func is invoked.
C3_RecoveryEligibility ==
    [][\A t \in Threads :
        (Decided(t) /\ state = OPEN)
        => IF now - The(last_failure_time) < recovery_timeout
           THEN outcome' = "rejected" /\ pc'[t] = "idle"
           ELSE state' = HALF_OPEN /\ success_count' = 0 /\ pc'[t] = "call"]_vars

C3_Witness ==
    /\ run.by = "trial"
    /\ run.n = 0
    /\ state = HALF_OPEN
    /\ now - The(last_failure_time) = recovery_timeout
    /\ \E t \in Threads : pc[t] = "call"

\* C4: from HALF_OPEN with success_count = 0, fewer than success_threshold
\* consecutive successes leave the state HALF_OPEN; the success that makes
\* success_threshold leaves it CLOSED with failure_count = 0, and from there
\* it takes failure_threshold consecutive failures to open it again.
C4_HalfOpenClose ==
    /\ (run.at = "half0" /\ run.by # "close")
        => (run.n < success_threshold /\ state = HALF_OPEN)
    /\ run.by = "close"
        => /\ run.n < failure_threshold
                => (state = CLOSED /\ failure_count = run.n)
           /\ run.n = failure_threshold => state = OPEN

C4_Witness ==
    /\ run.by = "close"
    /\ success_threshold >= 2
    /\ failure_threshold >= 2
    /\ run.n = failure_threshold
    /\ state = OPEN

\* C5: a success recorded while CLOSED sets failure_count to 0, and the
\* classified failures that follow it leave the breaker CLOSED until there
\* are failure_threshold of them with no success in between.
C5_SingleSuccessReset ==
    run.by = "ok"
        => /\ failure_count = run.n
           /\ run.n < failure_threshold => state = CLOSED
           /\ run.n = failure_threshold => state = OPEN

C5_Witness ==
    /\ run.by = "ok"
    /\ failure_threshold >= 2
    /\ run.prev = failure_threshold - 1
    /\ run.n = failure_threshold - 1
    /\ state = CLOSED

\* C6: a call rejected with CircuitBreakerError does not reach func and
\* leaves state, failure_count, success_count and last_failure_time as they
\* were.
C6_RejectionFrame ==
    [][\A t \in Threads :
        Rejected(t) => (pc'[t] = "idle" /\ UNCHANGED fields)]_vars

C6_Witness ==
    /\ outcome = "rejected"
    /\ state = OPEN
    /\ failure_count > failure_threshold
    /\ now > The(last_failure_time)

\* C7: reset() leaves state = CLOSED, failure_count = 0, success_count = 0,
\* and a call decided next is admitted to func even when recovery_timeout
\* has not passed since the last failure.
C7_ManualReset ==
    [][\A t \in Threads :
        /\ ResetDone(t)
            => (state' = CLOSED /\ failure_count' = 0 /\ success_count' = 0)
        /\ (run.by = "reset" /\ run.n = 0 /\ Decided(t))
            => pc'[t] = "call"]_vars

C7_Witness ==
    /\ run.by = "reset"
    /\ run.from = OPEN
    /\ run.n = 0
    /\ fail_time # None
    /\ TooEarly
    /\ \E t \in Threads : pc[t] = "call"

\* C8: when func raises an exception that is not an expected_exception, the
\* call ends with state, failure_count, success_count and last_failure_time
\* untouched.
C8_UnclassifiedException ==
    [][\A t \in Threads : OtherRaised(t) => UNCHANGED fields]_vars

C8_Witness ==
    /\ outcome = "other"
    /\ state = HALF_OPEN
    /\ success_count >= 1
    /\ failure_count >= 1

\* C9: whenever the bucket's lock is free, 0 <= tokens <= capacity.
C9_TokenBounds ==
    bucket_lock = None => (0 <= tokens /\ tokens <= capacity)

C9_Witness ==
    /\ bucket_lock = None
    /\ window_start = 0
    /\ granted > capacity
    /\ tokens = 0

\* C10: the tokens granted by successful consume calls in the interval from
\* window_start to now are at most capacity + rate * (now - window_start).
C10_RateBound ==
    granted <= capacity
               + rate * (IF now >= window_start THEN now - window_start ELSE 0)

C10_Witness ==
    /\ window_start >= 1
    /\ now > window_start
    /\ granted = capacity + rate * (now - window_start)

\* Steps of bucket caller c.
Checked(c) == cpc[c] = "locked" /\ cpc'[c] # "locked"

\* C11: a bucket made without initial_tokens starts with tokens = capacity;
\* each of the first capacity calls made on it, when all are consume(1),
\* returns True at its first check and so never sleeps, however little time
\* has passed; and the call after those, when it is a non-blocking consume(1)
\* checked at the clock value of __init__, returns False.
C11_FullBurst ==
    /\ [](burst = 0 => tokens = capacity)
    /\ [](\A c \in Consumers :
            (burst >= 1 /\ burst <= capacity)
                => cpc[c] \notin {"unlocked", "sleep"})
    /\ [][\A c \in Consumers :
            Checked(c) =>
               /\ (burst >= 1 /\ burst <= capacity)
                    => (cpc'[c] = "idle" /\ returned'.value = "true")
               /\ (burst = capacity + 1 /\ ~req[c].block /\ now = 0)
                    => (cpc'[c] = "idle" /\ returned'.value = "false")]_vars

C11_Witness ==
    /\ burst = capacity + 1
    /\ capacity = MaxBurst
    /\ now = 0
    /\ tokens = 0
    /\ returned.value = "false"
    /\ \A c \in Consumers : cpc[c] = "idle"

\* What _refill() makes of self.tokens at the present clock value.
Refilled ==
    LET sum == tokens + (now - last_update) * rate
    IN IF sum < capacity THEN sum ELSE capacity

\* C12: a non-blocking consume(n) whose check finds fewer than n tokens after
\* the refill returns False from that check, leaving tokens at the refilled
\* value, which is no less than before the call; a non-blocking consume is
\* never at the wait or asleep.
C12_NonBlockingReject ==
    /\ [](\A c \in Consumers :
            (cpc[c] \in {"unlocked", "sleep"}) => req[c].block)
    /\ [][\A c \in Consumers :
            (Checked(c) /\ ~req[c].block /\ Refilled < req[c].tokens)
            => /\ cpc'[c] = "idle"
               /\ returned'.value = "false"
               /\ tokens' = Refilled
               /\ tokens' >= tokens]_vars

C12_Witness ==
    /\ returned.value = "false"
    /\ returned.from = "locked"
    /\ now >= 1
    /\ last_update = now
    /\ tokens = capacity
    /\ \A c \in Consumers : cpc[c] = "idle"

\* Caller c leaves the place after the locked block; its consume() ends.
Waited(c) == cpc[c] = "unlocked" /\ cpc'[c] # "unlocked"
Ended(c) == cpc[c] \in {"locked", "unlocked"} /\ cpc'[c] \in {"idle", "func"}
TimedOut(c) ==
    /\ req[c].timeout # None
    /\ now - req[c].start_time >= The(req[c].timeout)

\* C13: a blocking consume(n, timeout = t) that is past its locked block
\* with now - start_time >= t returns False and leaves tokens as they are;
\* and a blocking consume that has a timeout ends in no other way than by
\* returning True or False.
C13_TimeoutReturns ==
    [][\A c \in Consumers :
        /\ (Waited(c) /\ TimedOut(c))
            => (cpc'[c] = "idle" /\ returned'.value = "false"
                /\ tokens' = tokens)
        /\ (Ended(c) /\ req[c].block /\ req[c].timeout # None)
            => returned'.value \in {"true", "false"}]_vars

\* C14: a consume(n) with n > capacity, blocking or not, never ends by
\* returning True, whatever the clock value it is checked at.
C14_OverCapacity ==
    [][\A c \in Consumers :
        (Ended(c) /\ req[c].tokens > capacity)
        => returned'.value # "true"]_vars

C14_Witness ==
    /\ now >= 2
    /\ last_update = now
    /\ tokens = capacity
    /\ \E c \in Consumers :
          /\ cpc[c] = "unlocked"
          /\ req[c].tokens > capacity
          /\ req[c].timeout = None
    /\ returned.value = "false"
    /\ returned.from = "locked"

\* C19: under a RateLimiter, func is invoked exactly when the wrapper's
\* consume() has returned True; when it has returned False the wrapper raises
\* RateLimitExceeded and func is not invoked; this in every state the circuit
\* breaker is in.
C19_WrapperGate ==
    [][\A c \in Consumers :
        /\ Ended(c)
            => /\ (cpc'[c] = "func") <=> (returned'.value = "true")
               /\ returned'.value = "false"
                    => (returned'.raised = "RateLimitExceeded"
                        /\ cpc'[c] = "idle")
        /\ (cpc[c] # "func" /\ cpc'[c] = "func")
            => (Ended(c) /\ returned'.value = "true")]_vars

C19_Witness ==
    /\ limiter # None
    /\ state = OPEN
    /\ returned.value = "false"
    /\ returned.raised = "RateLimitExceeded"
    /\ \E c \in Consumers : cpc[c] = "func"

\* C20: when the wrapper's blocking consume() is given up at the timeout
\* test, the caller gets an exception, and one of another kind than the
\* RateLimitExceeded raised for a rejected non-blocking consume().
C20_TimeoutErrorKind ==
    [][\A c \in Consumers :
        (limiter # None /\ Waited(c) /\ TimedOut(c))
        => returned'.raised \notin {"none", "RateLimitExceeded"}]_vars

\* Steps of the retry wrapper: func has been called once more and has ended
\* in the given way; the wrapper call has ended.
Tried(kind) ==
    rpc = "try" /\ invocations' = invocations + 1 /\ tried'.kind = kind
WrapperEnded == rpc = "idle" /\ result.kind # "none"

\* C15: a wrapper call in which every call of func raised a retryable
\* exception ends only after max_retries + 1 calls of func, and by raising
\* the exception of the last of them.
C15_ExhaustedRetries ==
    (WrapperEnded /\ failures = invocations)
    => /\ invocations = max_retries + 1
       /\ result = [kind |-> "raise", what |-> tried.what]

\* C16: when a call of func raises an exception that does not match
\* retryable_exceptions, the wrapper ends at once by raising it: no sleep
\* follows and no further call of func; when this is the first call of func,
\* func has been called exactly once.
C16_NonRetryable ==
    [][Tried("other")
        => /\ rpc' = "idle"
           /\ result' = [kind |-> "raise", what |-> tried'.what]
           /\ sleeps' = sleeps
           /\ invocations' = attempt + 1
           /\ attempt = 0 => invocations' = 1]_vars

C16_Witness ==
    /\ WrapperEnded
    /\ result.what \in OtherErrors
    /\ max_retries >= 2
    /\ attempt = 0
    /\ invocations = 1
    /\ sleeps = 0

\* C17: when func returns at attempt index j, after j retryable failures,
\* the wrapper ends at once by returning that value: func has been called
\* j + 1 times, and time.sleep j times and not again.
C17_SuccessEndsLoop ==
    [][Tried("return")
        => /\ rpc' = "idle"
           /\ result' = [kind |-> "return", what |-> tried'.what]
           /\ failures' = attempt
           /\ invocations' = attempt + 1
           /\ sleeps = attempt
           /\ sleeps' = sleeps]_vars

C17_Witness ==
    /\ WrapperEnded
    /\ result.kind = "return"
    /\ max_retries >= 2
    /\ attempt = max_retries
    /\ failures = max_retries
    /\ invocations = max_retries + 1

\* C18: at every sleep, which follows the failure of attempt index i, the
\* delay before jitter is min(initial_delay * exponential_base^i, max_delay);
\* the delay slept is that value without jitter and between 0.5 and 1.0 times
\* that value with jitter, and in no case more than max_delay.
C18_BackoffDelay ==
    [][sleeps' = sleeps + 1
        => LET full == initial_delay * exponential_base^attempt
               pre == IF full <= max_delay THEN full ELSE max_delay
           IN /\ backoff' = pre
              /\ IF jitter
                 THEN 2 * slept' >= pre * Scale /\ slept' <= pre * Scale
                 ELSE slept' = pre * Scale
              /\ slept' <= max_delay * Scale]_vars

C18_Witness ==
    /\ jitter
    /\ sleeps >= 2
    /\ initial_delay * exponential_base^(attempt - 1) > max_delay
    /\ backoff = max_delay
    /\ backoff >= 2
    /\ 2 * slept = backoff * Scale

\* ------------------------------------------------------------------ C21
\* C21: the state of a RedisCircuitBreaker lives in the store and nowhere
\* else. A call through any accessor that begins while the store holds
\* OPEN takes the open branch, and when it then finds that less than
\* recovery_timeout has passed since the stored last failure time it raises
\* CircuitBreakerError: func is not run and the store is not written.
CallBegins(p) == ppc[p] = "idle" /\ ppc'[p] \in {"check", "func"}

OpenChecked(p) == ppc[p] = "check" /\ ppc'[p] # "check"

StoredOpen == store.state = Some(StateBytes(OPEN))

StoredTooEarly ==
    /\ store.last_failure # None
    /\ Clock - Number(The(store.last_failure)) < recovery_timeout

Edges ==
    {<<CLOSED, OPEN>>, <<OPEN, HALF_OPEN>>, <<HALF_OPEN, CLOSED>>,
     <<HALF_OPEN, OPEN>>}

C23_DefinedEdges ==
    [][state' # state =>
          \/ <<state, state'>> \in Edges
          \/ (\E t \in Threads : ResetDone(t)) /\ state' = CLOSED]_vars

\* A run of trial successes has closed the circuit while another caller's
\* func, admitted earlier, is still running.
C23_Witness ==
    /\ state = CLOSED
    /\ run.by = "close"
    /\ \E t \in Threads : pc[t] = "call"

\* ------------------------------------------------------------------ C24
\* C24: a caller whose func is running does not own the breaker's lock: the
\* owner, if there is one, is inside the decision phase, the success or
\* failure bookkeeping or reset(), and its next step needs nothing from
\* anybody else; when nobody owns the lock, every caller that is not inside
\* call() or reset() can enter either of them at once, however many funcs
\* are still running.
InLock == {"decide", "on_success", "on_failure", "reset"}

C24_FuncOutsideLock ==
    /\ \A t \in Threads : (lock = Some(t)) <=> (pc[t] \in InLock)
    /\ \A t \in Threads :
          pc[t] \in InLock =>
              ENABLED (Decide(t) \/ RecordSuccess(t) \/ RecordFailure(t)
                          \/ Reset(t))
    /\ lock = None =>
          \A t \in Threads :
              pc[t] = "idle" => ENABLED BeginCall(t) /\ ENABLED BeginReset(t)

\* One caller's func is running while another caller owns the lock for its
\* failure bookkeeping.
C24_Witness ==
    /\ pc[1] = "call"
    /\ pc[2] = "on_failure"
    /\ lock = Some(2)

\* ------------------------------------------------------------------ C25
\* C25: nothing limits the trial calls in flight while HALF_OPEN. A decision
\* phase that finds the circuit HALF_OPEN admits the caller and changes no
\* field, however many funcs are running and whatever success_threshold
\* is, so every caller there is can be inside func at once.
C25_UnlimitedTrials ==
    [][\A t \in Threads :
          (Decided(t) /\ state = HALF_OPEN) =>
              (pc'[t] = "call" /\ self' = self)]_vars

\* Every caller's func is running while the circuit is HALF_OPEN, with a
\* success_threshold of 1.
C25_Witness ==
    /\ state = HALF_OPEN
    /\ success_threshold = 1
    /\ \A t \in Threads : pc[t] = "call"

\* ------------------------------------------------------------------ C26
\* C26: a consumer that is between the locked block of consume() and the
\* end of its time.sleep() does not own the bucket's lock: the owner, if
\* there is one, is inside the locked block of consume() or of
\* get_available_tokens() and its next step waits for nobody; when nobody
\* owns the lock, a consumer at the top of the loop can enter the locked
\* block and an idle one can enter get_available_tokens(), whoever sleeps.
InBucketLock == {"locked", "get"}

C26_SleepOutsideLock ==
    /\ \A c \in Consumers :
          (bucket_lock = Some(c)) <=> (cpc[c] \in InBucketLock)
    /\ \A c \in Consumers :
          cpc[c] \in InBucketLock =>
              ENABLED (Check(c) \/ GetAvailableTokens(c))
    /\ bucket_lock = None =>
          \A c \in Consumers :
              /\ cpc[c] = "loop" => ENABLED Acquire(c)
              /\ cpc[c] = "idle" => ENABLED BeginGet(c)

\* One consumer is asleep, with time still to go, while the other owns the
\* lock inside get_available_tokens().
C26_Witness ==
    /\ cpc["c1"] = "sleep"
    /\ now < wake["c1"]
    /\ cpc["c2"] = "get"
    /\ bucket_lock = Some("c2")

\* ------------------------------------------------------------------ C27
\* C27: a blocking consume() that has left its locked block without the
\* tokens, and is not timed out, goes to sleep, for a time that is strictly
\* positive and no more than the 0.1 s cap, whatever the other callers did
\* to the bucket since the locked block was left.
C27_PositiveWait ==
    [][\A c \in Consumers :
          (Waited(c) /\ ~TimedOut(c)) =>
              (cpc'[c] = "sleep" /\ wake'[c] - now \in 1..SleepCap)]_vars

\* ------------------------------------------------------------------ C28
\* C28: a blocking consume(n) without a timeout, 0 < n <= capacity, made by
\* the only caller of the bucket while the clock keeps advancing, comes to
\* an end, and the end is the return of True.
C28_EventuallyTrue ==
    (cpc["c1"] \in {"loop", "locked", "unlocked", "sleep"})
        ~> (cpc["c1"] = "idle" /\ returned.value = "true")

\* The caller asked for all that a bucket of two or more can hold, found
\* less, and is asleep with time still to go.
C28_Witness ==
    /\ cpc["c1"] = "sleep"
    /\ now < wake["c1"]
    /\ capacity >= 2
    /\ req["c1"].tokens = capacity
    /\ req["c1"].timeout = None

\* ------------------------------------------------------------------ C29
\* C29: in one call of the wrapper, sleeps and calls of func alternate.
\* When func is about to be called for the attempt of index i, func has
\* been called i times and time.sleep i times; a call of func after which
\* the loop goes on is followed by exactly one sleep; the call of func that
\* ends the wrapper is followed by none, and when that call is the failure
\* of attempt max_retries there have been exactly max_retries sleeps.
C29_SleepsAlternate ==
    [][rpc = "try" =>
          /\ invocations = attempt
          /\ sleeps = attempt
          /\ invocations' = invocations + 1
          /\ rpc' = "try" => (sleeps' = sleeps + 1 /\ attempt' = attempt + 1)
          /\ rpc' = "idle" => sleeps' = sleeps
          /\ (rpc' = "idle" /\ tried'.kind = "retryable"
                /\ attempt = max_retries) => sleeps' = max_retries]_vars

\* Every attempt of a wrapper with two or more retries has failed: one
\* sleep between each two calls of func, none after the last.
C29_Witness ==
    /\ WrapperEnded
    /\ max_retries >= 2
    /\ tried.kind = "retryable"
    /\ invocations = max_retries + 1
    /\ sleeps = max_retries

\* ------------------------------------------------------------------ C30
\* C30: one request through retry_with_backoff around breaker.call(raw),
\* raw always failing, the breaker CLOSED with failure_count 0 before it and
\* max_retries >= failure_threshold. Every call of raw is counted by the
\* breaker as one failure; the circuit is CLOSED until raw has failed
\* failure_threshold times and OPEN once it has, so the step that opens it
\* is the failure of the call of raw number failure_threshold; and raw is
\* not called while the circuit is OPEN with less than recovery_timeout
\* gone since the last failure.
C30_PerAttempt ==
    [][max_retries >= failure_threshold =>
          /\ pc[1] = "idle" => failure_count = raw_calls
          /\ (pc[1] = "idle" /\ raw_calls < failure_threshold)
                => state = CLOSED
          /\ (pc[1] = "idle" /\ raw_calls >= failure_threshold)
                => state = OPEN
          /\ (state # OPEN /\ state' = OPEN /\ raw_calls <= failure_threshold)
                => raw_calls = failure_threshold
          /\ (raw_calls' # raw_calls /\ state = OPEN)
                => now - The(last_failure_time) >= recovery_timeout]_vars

\* After the second of two failures of raw has opened the circuit, the
\* next attempt of the same request has been rejected before the timeout,
\* without a call of raw, and the wrapper is about to try again.
C30_Witness ==
    /\ failure_threshold = 2
    /\ max_retries >= failure_threshold
    /\ state = OPEN
    /\ raw_calls = 2
    /\ invocations = 3
    /\ tried.what = "CircuitBreakerError"
    /\ rpc = "try"
    /\ now - The(last_failure_time) < recovery_timeout

\* ------------------------------------------------------------------ C31
\* C31: in a request through retry_with_backoff around breaker.call(raw),
\* an attempt that the breaker rejects ends the request at once: the wrapper
\* raises CircuitBreakerError to its caller, with no sleep and no further
\* attempt.
AttemptRejected ==
    /\ rpc = "try"
    /\ pc[1] = "idle"
    /\ invocations' = invocations + 1
    /\ raw_calls' = raw_calls

C31_FailFast ==
    [][AttemptRejected =>
          /\ rpc' = "idle"
          /\ result' = [kind |-> "raise", what |-> "CircuitBreakerError"]
          /\ sleeps' = sleeps]_vars

\* ------------------------------------------------------------------ C32
\* C32: under retry_with_backoff over rate_limit, f is entered, on a first
\* attempt or on a retry, only out of the locked block of a consume() of
\* the same caller that takes one token from a bucket that holds one; so
\* the calls of f begun from window_start to now, by all callers, are the
\* tokens granted in that interval and are no more than
\* capacity + rate * (now - window_start).
Entered(c) == cpc[c] # "func" /\ cpc'[c] = "func"

C32_RetriesGated ==
    /\ [][\A c \in Consumers :
            Entered(c) =>
                /\ cpc[c] = "locked"
                /\ req[c].tokens = 1
                /\ Refill(bucket, now).tokens >= 1
                /\ tokens' = Refill(bucket, now).tokens - 1
                /\ now >= window_start => granted' = granted + 1]_vars
    /\ [][granted' # granted => \E c \in Consumers : Entered(c)]_vars
    /\ [](granted <= capacity
             + rate * (IF now >= window_start THEN now - window_start
                                               ELSE 0))

\* f is running on the second retry of a request, and the calls of f begun
\* in an interval that has lasted a tick or more are as many as the bound
\* allows.
C32_Witness ==
    /\ cpc[Stacked] = "func"
    /\ attempt >= 2
    /\ now > window_start
    /\ granted = capacity + rate * (now - window_start)

\* ------------------------------------------------------------------ C33
\* C33: in the Redis breaker, each recording of a classified failure, by
\* whichever accessor and however interleaved with the other's commands,
\* raises the stored failure count by exactly one and is handed the new
\* count; the stored count changes in no other way than by such a recording
\* or by a command that sets it to zero, so m recordings with no reset
\* between them raise it by exactly m. A recording goes on to write OPEN
\* exactly when the count it was handed is failure_threshold or more.
Recording(p) == ppc[p] = "fail_incr" /\ ppc'[p] = "fail_time"

Stored == get_count(store, "failures")

C33_AtomicCount ==
    /\ [][\A p \in Procs :
            Recording(p) =>
                /\ get_count(store', "failures") = Stored + 1
                /\ frame'[p].n = Stored + 1]_vars
    /\ [][get_count(store', "failures") # Stored =>
            \/ \E p \in Procs : Recording(p)
            \/ /\ get_count(store', "failures") = 0
               /\ \E p \in Procs :
                     ppc[p] \in {"init_failures", "ok_reset", "reset_failures"}
                     /\ ppc'[p] # ppc[p]]_vars
    /\ [][\A p \in Procs :
            /\ (ppc[p] = "fail_time" /\ ppc'[p] # ppc[p]) =>
                   ppc'[p] = "fail_reset" /\ frame'[p].n = frame[p].n
            /\ (ppc[p] = "fail_reset" /\ ppc'[p] # ppc[p]) =>
                   /\ frame[p].n >= failure_threshold
                         <=> ppc'[p] = "fail_open"
                   /\ ppc'[p] = "fail_open" => frame'[p].n = frame[p].n
            /\ (ppc[p] # "fail_open" /\ ppc'[p] = "fail_open") =>
                   ppc[p] = "fail_reset"
            /\ (ppc[p] = "fail_open" /\ ppc'[p] # ppc[p]) =>
                   store'.state = Some(StateBytes(OPEN))
            /\ (ppc[p] = ppc'[p] /\ ppc[p] \in {"fail_time", "fail_reset",
                                                  "fail_open"}) =>
                   frame'[p].n = frame[p].n]_vars
    /\ [][(store'.state = Some(StateBytes(OPEN)) /\ store'.state # store.state)
            => \E p \in Procs : /\ ppc[p] = "fail_open"
                                 /\ ppc'[p] = "idle"
                                 /\ frame[p].n >= failure_threshold]_vars

\* Two recordings run side by side, with no reset between them: one was
\* handed a count below the threshold and the other the next count, which
\* is the threshold, and is about to write OPEN.
C33_Witness ==
    /\ failure_threshold = 2
    /\ ppc["A"] = "fail_reset"
    /\ frame["A"].n = 1
    /\ ppc["B"] = "fail_open"
    /\ frame["B"].n = 2
    /\ Stored = 2

\* ------------------------------------------------------------------ C34
\* C34: in the Redis breaker used by accessors whose commands interleave, a
\* command of call() or reset() that changes the stored state is the first
\* command of reset(), writing CLOSED, or takes the stored state from
\* CLOSED to OPEN, from OPEN to HALF_OPEN, from HALF_OPEN to CLOSED or
\* from HALF_OPEN to OPEN. (What a constructor writes is the matter of
\* C35 and is let through here.)
StateWritten == get_state(store') # get_state(store)

C34_StoredEdges ==
    [][StateWritten =>
          \/ <<get_state(store), get_state(store')>> \in Edges
          \/ /\ get_state(store') = CLOSED
             /\ \E p \in Procs : /\ ppc[p] = "idle"
                                  /\ ppc'[p] = "reset_failures"
          \/ \E p \in Procs : ppc[p] = "init_state" /\ ppc'[p] # ppc[p]]_vars

\* ------------------------------------------------------------------ C35
\* C35: a command of the constructor of one accessor, run when the other
\* accessor has finished its construction (so the circuit is initialised
\* and may have been used), leaves the stored state, failure count and
\* success count as they are; this also when the two constructors ran side
\* by side.
Constructing(p) ==
    /\ ppc[p] \in {"new", "init_state", "init_failures", "init_successes"}
    /\ ppc'[p] # ppc[p]

Constructed(p) ==
    ppc[p] \notin {"new", "init_state", "init_failures", "init_successes"}

C35_ConstructorKeeps ==
    [][\A p \in Procs :
          (Constructing(p) /\ \E q \in Procs \ {p} : Constructed(q)) =>
              /\ get_state(store') = get_state(store)
              /\ get_count(store', "failures") = get_count(store, "failures")
              /\ get_count(store', "successes")
                    = get_count(store, "successes")]_vars

\* ------------------------------------------------------------------ C36
\* C36: in the async Agent, an error of the awaited LLM call that is one of
\* the retryable exceptions of the decorator of _call_llm reaches
\* _process_internal only when the LLM has been called max_retries + 1
\* times for that _call_llm().
ErrorReaches ==
    /\ agent.at = "awaiting"
    /\ agent'.at = "returned"
    /\ agent'.got.kind = "error"

C36_AsyncRetried ==
    [][(ErrorReaches /\ agent'.got.what \in retryable_exceptions) =>
          agent'.llm_calls = max_retries + 1]_vars

\* ------------------------------------------------------------------ C37
\* C37: in every reachable state of the in-process CircuitBreaker, with
\* callers running side by side, state = OPEN implies
\* failure_count >= failure_threshold.
C37_OpenAtThreshold ==
    state = OPEN => failure_count >= failure_threshold

\* ------------------------------------------------------------------ C38
\* C38: while the in-process breaker is OPEN, the bookkeeping of a call
\* that ends, which was admitted before the circuit opened, changes
\* nothing: state, failure_count and last_failure_time stay as they are.
Completes(t) == pc[t] \in {"on_success", "on_failure"} /\ pc'[t] = "idle"

C38_LateCompletionInert ==
    [][\A t \in Threads :
          (state = OPEN /\ Completes(t)) =>
              /\ state' = OPEN
              /\ failure_count' = failure_count
              /\ last_failure_time' = last_failure_time]_vars

\* ------------------------------------------------------------------ C39
\* C39: whenever the state of the in-process breaker is OPEN,
\* last_failure_time is not None; whenever the state stored for a Redis
\* breaker is OPEN, the last_failure key is present and holds a time that
\* the check of call() reads as a timestamp, so that a call made
\* recovery_timeout after it is admitted as a trial.
C39_OpenHasTimestamp ==
    /\ state = OPEN => last_failure_time # None
    /\ get_state(store) = OPEN =>
          /\ Exists(store, "last_failure")
          /\ get_last_failure_time(store) # None
          /\ TrialDue(store,
                      The(get_last_failure_time(store)) + recovery_timeout,
                      recovery_timeout)

\* The stored state is OPEN, written by one accessor, while the other
\* accessor has read OPEN and is at the check of the last failure time.
C39_Witness ==
    /\ get_state(store) = OPEN
    /\ seen.opener = "A"
    /\ ppc["B"] = "check"
    /\ Exists(store, "last_failure")

\* ------------------------------------------------------------------ C40
\* C40: the in-process breaker does not stay OPEN for ever: with the clock
\* advancing, calls arriving and the calls in flight ending only finitely
\* often, an OPEN breaker leads to a call admitted as the trial (state
\* HALF_OPEN and func entered), unless reset() closes the circuit first.
TrialAdmitted == state = HALF_OPEN /\ \E t \in Threads : pc[t] = "call"

C40_OpenLeadsToTrial == (state = OPEN) ~> (TrialAdmitted \/ state = CLOSED)

\* The trial is in func, admitted after the clock went past MaxTime, while
\* a call admitted before the circuit opened is still in flight.
C40_Witness ==
    /\ state = HALF_OPEN
    /\ \A t \in Threads : pc[t] = "call"
    /\ now > MaxTime

====
